---- MODULE Spec2Model ----
(***************************************************************************)
(* Smart Lead Import pipeline of the CRM backend: the import session state *)
(* machine (upload, submit_mapping, preview, duplicates, execute, status,  *)
(* delete), the normalizer and the three-pass deduplicator.                *)
(*                                                                         *)
(* Text values are sequences of one-character strings.  Python's None, a   *)
(* missing dict key and pandas' NaN are the one-element sequences None,    *)
(* Absent and NaN, which no text value equals.                             *)
(***************************************************************************)
EXTENDS Integers, Sequences, FiniteSets, TLC

\* ------------------------------------------------------------------------
\* Bounds of the model
\* ------------------------------------------------------------------------

\* rows per uploaded file
MaxRows == 3

\* import sessions ever created
MaxSessions == 1

\* keys in the duplicate_decisions map of one execute request
MaxDecisions == 1

\* commits or queries the database fails in one run
MaxFaults == 1

\* ------------------------------------------------------------------------
\* Text helpers (Python str methods used by the services)
\* ------------------------------------------------------------------------

None == <<"<None>">>
Absent == <<"<absent>">>
NaN == <<"<NaN>">>

LowerChars == <<"a","b","c","d","e","f","g","h","i","j","k","l","m",
                "n","o","p","q","r","s","t","u","v","w","x","y","z">>
UpperChars == <<"A","B","C","D","E","F","G","H","I","J","K","L","M",
                "N","O","P","Q","R","S","T","U","V","W","X","Y","Z">>
DigitChars == {"0","1","2","3","4","5","6","7","8","9"}

Range(f) == {f[i] : i \in DOMAIN f}

IsLower(c) == c \in Range(LowerChars)
IsUpper(c) == c \in Range(UpperChars)
IsAlpha(c) == IsLower(c) \/ IsUpper(c)
IsDigit(c) == c \in DigitChars
IsSpace(c) == c = " "

LowerChar(c) ==
    IF IsUpper(c) THEN LowerChars[CHOOSE i \in 1..26 : UpperChars[i] = c] ELSE c
UpperChar(c) ==
    IF IsLower(c) THEN UpperChars[CHOOSE i \in 1..26 : LowerChars[i] = c] ELSE c

\* str.lower()
Lower(s) == [i \in 1..Len(s) |-> LowerChar(s[i])]

\* str.strip()
RECURSIVE LStrip(_)
LStrip(s) == IF s # <<>> /\ IsSpace(Head(s)) THEN LStrip(Tail(s)) ELSE s
RECURSIVE RStrip(_)
RStrip(s) ==
    IF s # <<>> /\ IsSpace(s[Len(s)]) THEN RStrip(SubSeq(s, 1, Len(s) - 1)) ELSE s
Strip(s) == RStrip(LStrip(s))

\* str.replace(' ', '')
RemoveSpaces(s) == SelectSeq(s, LAMBDA c : ~IsSpace(c))

\* str.replace('..', '.'): left to right, non-overlapping
RECURSIVE ReplaceDoubleDots(_)
ReplaceDoubleDots(s) ==
    IF Len(s) < 2 THEN s
    ELSE IF s[1] = "." /\ s[2] = "."
         THEN <<".">> \o ReplaceDoubleDots(SubSeq(s, 3, Len(s)))
         ELSE <<s[1]>> \o ReplaceDoubleDots(Tail(s))

\* ' '.join(s.split()): runs of whitespace become one space, ends trimmed
RECURSIVE CollapseSpaces(_)
CollapseSpaces(s) ==
    IF Len(s) < 2 THEN s
    ELSE IF IsSpace(s[1]) /\ IsSpace(s[2])
         THEN CollapseSpaces(Tail(s))
         ELSE <<s[1]>> \o CollapseSpaces(Tail(s))
JoinSplit(s) == CollapseSpaces(Strip(s))

\* str.title(): a letter after a letter is lowered, any other letter raised
Title(s) ==
    [i \in 1..Len(s) |->
        IF i > 1 /\ IsAlpha(s[i - 1]) THEN LowerChar(s[i]) ELSE UpperChar(s[i])]

\* pd.isna(value) or not str(value).strip(); pd.isna(None) is true
IsBlank(v) == v = NaN \/ v = None \/ Strip(v) = <<>>

\* Python truthiness of a dict.get(...) result (None, missing and '' are falsy)
Truthy(v) == v # None /\ v # Absent /\ v # <<>>

\* str(n) for the row numbers of the model
IntToStr(n) ==
    LET d(k) == CHOOSE c \in DigitChars :
                    c = <<"0","1","2","3","4","5","6","7","8","9">>[k + 1]
    IN  IF n < 10 THEN <<d(n)>> ELSE <<d(n \div 10), d(n % 10)>>

\* ------------------------------------------------------------------------
\* Lead source enumeration (app/models/lead.py) and its JSON form
\* ------------------------------------------------------------------------

\* the text of each member's value
SourceValues == <<<<"W","e","b","s","i","t","e">>,
                  <<"R","e","f","e","r","r","a","l">>,
                  <<"C","a","m","p","a","i","g","n">>,
                  <<"D","i","r","e","c","t">>,
                  <<"O","t","h","e","r">>>>

\* a LeadSource member: an object with a .value, distinct from every text
LeadSourceMember(i) == <<"LeadSource">> \o SourceValues[i]
LeadSource_WEBSITE == LeadSourceMember(1)
LeadSource_REFERRAL == LeadSourceMember(2)
LeadSource_CAMPAIGN == LeadSourceMember(3)
LeadSource_DIRECT == LeadSourceMember(4)
LeadSource_OTHER == LeadSourceMember(5)
LeadSourceMembers == {LeadSourceMember(i) : i \in 1..5}

\* hasattr(source, "value")
HasValue(v) == v \in LeadSourceMembers

\* member.value
ValueOf(m) == Tail(m)

\* ------------------------------------------------------------------------
\* NormalizerService (app/services/lead_import/normalizer.py)
\* ------------------------------------------------------------------------

CrmFields == {"full_name", "first_name", "last_name", "email", "phone",
              "company", "source", "notes"}

SOURCE_ALIASES ==
    {<<<<"w","e","b">>, LeadSource_WEBSITE>>, <<<<"s","i","t","e">>, LeadSource_WEBSITE>>,
     <<<<"r","e","f">>, LeadSource_REFERRAL>>, <<<<"r","e","f","e","r","e","n","c","e">>, LeadSource_REFERRAL>>,
     <<<<"a","d">>, LeadSource_CAMPAIGN>>, <<<<"a","d","s">>, LeadSource_CAMPAIGN>>,
     <<<<"m","a","r","k","e","t","i","n","g">>, LeadSource_CAMPAIGN>>,
     <<<<"c","o","l","d">>, LeadSource_DIRECT>>, <<<<"c","a","l","l">>, LeadSource_DIRECT>>}

\* VALID_SOURCES = {s.value.lower(): s for s in LeadSource}
VALID_SOURCES == {<<Lower(ValueOf(m)), m>> : m \in LeadSourceMembers}

normalize_name(value) ==
    IF IsBlank(value) THEN None ELSE Title(JoinSplit(Strip(value)))

merge_names(first_name, last_name) ==
    LET part(v) == IF v # None /\ v # Absent /\ ~IsBlank(v) THEN <<Strip(v)>> ELSE <<>>
        parts == part(first_name) \o part(last_name)
        full == IF Len(parts) = 2 THEN parts[1] \o <<" ">> \o parts[2] ELSE parts[1]
    IN  IF parts = <<>> THEN None ELSE Title(JoinSplit(full))

\* EMAIL_PATTERN = ^[a-zA-Z0-9._%+-]+@[a-zA-Z0-9.-]+\.[a-zA-Z]{2,}$
EmailLocalChar(c) == IsAlpha(c) \/ IsDigit(c) \/ c \in {".", "_", "%", "+", "-"}
EmailDomainChar(c) == IsAlpha(c) \/ IsDigit(c) \/ c \in {".", "-"}
EMAIL_PATTERN(s) ==
    \E a \in 2..Len(s) : \E d \in (a + 2)..Len(s) :
        /\ s[a] = "@"
        /\ \A i \in 1..(a - 1) : EmailLocalChar(s[i])
        /\ s[d] = "."
        /\ \A i \in (a + 1)..(d - 1) : EmailDomainChar(s[i])
        /\ Len(s) - d >= 2
        /\ \A i \in (d + 1)..Len(s) : IsAlpha(s[i])

\* (normalized_email, error_message)
normalize_email(value) ==
    IF IsBlank(value) THEN <<None, "Email is required">>
    ELSE LET email == ReplaceDoubleDots(RemoveSpaces(Lower(Strip(value))))
         IN  IF ~EMAIL_PATTERN(email) THEN <<None, "Invalid email format">>
             ELSE <<email, "">>

\* PHONE_CHARS_TO_REMOVE = [^\d+]
normalize_phone(value) ==
    IF IsBlank(value) THEN None
    ELSE LET phone == Strip(value)
             has_plus == phone # <<>> /\ phone[1] = "+"
             digits == SelectSeq(phone, LAMBDA c : IsDigit(c) \/ c = "+")
         IN  IF Len(digits) < 7 THEN None
             ELSE IF has_plus /\ ~(digits # <<>> /\ digits[1] = "+")
                  THEN <<"+">> \o digits
                  ELSE digits

normalize_source(value) ==
    IF IsBlank(value) THEN LeadSource_OTHER
    ELSE LET source_lower == Lower(Strip(value))
         IN  IF \E p \in VALID_SOURCES : p[1] = source_lower
             THEN (CHOOSE p \in VALID_SOURCES : p[1] = source_lower)[2]
             ELSE IF \E p \in SOURCE_ALIASES : p[1] = source_lower
                  THEN (CHOOSE p \in SOURCE_ALIASES : p[1] = source_lower)[2]
                  ELSE LeadSource_OTHER

normalize_text(value) == IF IsBlank(value) THEN None ELSE Strip(value)

\* the columns of an uploaded table, in file order (names already lowercased
\* and trimmed, as both endpoints do before using them)
Columns == <<"name", "email", "phone", "company", "source">>

NormFields == {"full_name", "email", "phone", "company", "source", "notes"}

\* row.get(key): None when the key is missing
Get(row, key) == IF row[key] = Absent THEN None ELSE row[key]

\* normalize_row, lines 203-208: the value of each mapped CRM field; when
\* several columns map to one field the last column in file order wins
MappedRow(row, mappings) ==
    [f \in CrmFields |->
        LET cols == {i \in 1..Len(Columns) :
                        /\ Columns[i] \in DOMAIN mappings
                        /\ mappings[Columns[i]] = f}
        IN  IF cols = {} THEN Absent
            ELSE row[Columns[CHOOSE i \in cols : \A j \in cols : j <= i]]]

\* separator.join(values)
RECURSIVE JoinWith(_, _)
JoinWith(values, separator) ==
    IF values = <<>> THEN <<>>
    ELSE IF Len(values) = 1 THEN values[1]
    ELSE values[1] \o separator \o JoinWith(Tail(values), separator)

\* str(value) of a cell
StrOf(v) == IF v = NaN THEN <<"n", "a", "n">> ELSE v

\* the non-empty stripped values of the rule's sources, in order
RECURSIVE MergeValues(_, _)
MergeValues(result, sources) ==
    IF sources = <<>> THEN <<>>
    ELSE LET source == Head(sources)
             v == IF source \in DOMAIN result THEN result[source] ELSE Absent
             val == IF v # Absent /\ v # None /\ v # <<>> THEN Strip(StrOf(v)) ELSE <<>>
         IN  (IF val # <<>> THEN <<val>> ELSE <<>>) \o MergeValues(result, Tail(sources))

RECURSIVE apply_merge_rules(_, _)
apply_merge_rules(row, merge_rules) ==
    IF merge_rules = <<>> THEN row
    ELSE LET rule == Head(merge_rules)
             values == MergeValues(row, rule.sources)
             result == IF rule.target = "" \/ rule.sources = <<>> \/ values = <<>>
                       THEN row
                       ELSE [row EXCEPT ![rule.target] = JoinWith(values, rule.separator)]
         IN  apply_merge_rules(result, Tail(merge_rules))

\* mapped_row after the merge rules
MergedRow(mapped_row, merge_rules) ==
    IF merge_rules # <<>> THEN apply_merge_rules(mapped_row, merge_rules) ELSE mapped_row

\* normalize_row, lines 214-253: the normalized fields and the errors of a
\* mapped row, given its name and its (email, error) pair
NormalizedFields(mapped_row, full_name, em) ==
    <<[f \in NormFields |->
        CASE f = "full_name" -> full_name
          [] f = "email" -> IF Truthy(em[1]) THEN em[1] ELSE Absent
          [] f = "phone" -> IF mapped_row["phone"] # Absent
                            THEN normalize_phone(mapped_row["phone"]) ELSE Absent
          [] f = "company" -> IF mapped_row["company"] # Absent
                              THEN normalize_text(mapped_row["company"]) ELSE Absent
          [] f = "source" -> IF mapped_row["source"] # Absent
                             THEN normalize_source(mapped_row["source"])
                             ELSE LeadSource_OTHER
          [] f = "notes" -> IF mapped_row["notes"] # Absent
                            THEN normalize_text(mapped_row["notes"]) ELSE Absent],
      (IF ~Truthy(full_name)
       THEN <<[field |-> "full_name", error |-> "Name is required"]>> ELSE <<>>)
      \o (IF em[2] # "" THEN <<[field |-> "email", error |-> em[2]]>> ELSE <<>>)>>

\* the name of a mapped row: full_name, or first_name and last_name merged
MappedName(mapped_row) ==
    IF mapped_row["full_name"] # Absent
    THEN normalize_name(mapped_row["full_name"])
    ELSE IF mapped_row["first_name"] # Absent \/ mapped_row["last_name"] # Absent
         THEN merge_names(Get(mapped_row, "first_name"), Get(mapped_row, "last_name"))
         ELSE Absent

\* the (email, error) pair of a mapped row
MappedEmail(mapped_row) ==
    IF mapped_row["email"] # Absent THEN normalize_email(mapped_row["email"])
    ELSE <<None, "Email is required">>

NormalizeMapped(mapped_row) ==
    NormalizedFields(mapped_row, MappedName(mapped_row), MappedEmail(mapped_row))

\* (normalized, errors)
normalize_row(row, mappings, merge_rules) ==
    NormalizeMapped(MergedRow(MappedRow(row, mappings), merge_rules))

\* a filing that keeps the valid rows and forgets the others
FileRowDroppingInvalid(row_num, original, nr, rest) ==
    IF nr[2] # <<>> THEN rest
    ELSE <<<<nr[1] @@ ("_row_num" :> row_num)>> \o rest[1], rest[2]>>

\* normalize_data, lines 276-286: files a normalized row under the valid or
\* the invalid rows
FileRow(row_num, original, nr, rest) ==
    IF nr[2] # <<>>
    THEN <<rest[1],
           <<[row |-> row_num, original |-> original,
              normalized |-> nr[1], errors |-> nr[2]]>> \o rest[2]>>
    ELSE <<<<nr[1] @@ ("_row_num" :> row_num)>> \o rest[1], rest[2]>>

\* (valid_rows, invalid_rows); row numbers are idx + 2
RECURSIVE normalize_from(_, _, _, _)
normalize_from(data, idx, mappings, merge_rules) ==
    IF idx >= Len(data) THEN <<<<>>, <<>>>>
    ELSE FileRow(idx + 2, data[idx + 1],
                 normalize_row(data[idx + 1], mappings, merge_rules),
                 normalize_from(data, idx + 1, mappings, merge_rules))

normalize_data(data, mappings, merge_rules) == normalize_from(data, 0, mappings, merge_rules)

\* ------------------------------------------------------------------------
\* DeduplicatorService (app/services/lead_import/deduplicator.py)
\* ------------------------------------------------------------------------

\* similarity threshold of the fuzzy name match, in percent (0.85)
NAME_SIMILARITY_THRESHOLD == 85

\* db.query(Lead).limit(1000)
SmartMatchLeadLimit == 1000

\* the distinct truthy values of a field among the rows that pass `keep`,
\* in order of first occurrence (insertion order of the groups dict)
RECURSIVE GroupKeys(_, _, _, _)
GroupKeys(data, key, skipped, seen) ==
    IF data = <<>> THEN <<>>
    ELSE LET row == Head(data)
             v == Get(row, key)
             take == Truthy(v) /\ row["_row_num"] \notin skipped /\ v \notin seen
         IN  IF take
             THEN <<v>> \o GroupKeys(Tail(data), key, skipped, seen \cup {v})
             ELSE GroupKeys(Tail(data), key, skipped, seen)

\* the row numbers filed under one value of the field, in file order
RECURSIVE GroupRows(_, _, _, _)
GroupRows(data, key, skipped, value) ==
    IF data = <<>> THEN <<>>
    ELSE LET row == Head(data)
             in == Get(row, key) = value /\ row["_row_num"] \notin skipped
         IN  (IF in THEN <<row["_row_num"]>> ELSE <<>>)
             \o GroupRows(Tail(data), key, skipped, value)

\* a grouping that reports every group, those of one row included
RECURSIVE ClustersOfAnySize(_, _, _, _)
ClustersOfAnySize(data, key, skipped, keys) ==
    IF keys = <<>> THEN <<>>
    ELSE <<[rows |-> GroupRows(data, key, skipped, Head(keys)),
            match_type |-> key, match_value |-> Head(keys)]>>
         \o ClustersOfAnySize(data, key, skipped, Tail(keys))

\* the groups of more than one row, as duplicate entries
RECURSIVE Clusters(_, _, _, _)
Clusters(data, key, skipped, keys) ==
    IF keys = <<>> THEN <<>>
    ELSE LET rows == GroupRows(data, key, skipped, Head(keys))
         IN  (IF Len(rows) > 1
              THEN <<[rows |-> rows, match_type |-> key, match_value |-> Head(keys)]>>
              ELSE <<>>)
             \o Clusters(data, key, skipped, Tail(keys))

\* every row number listed in a list of clusters
ClusterRows(duplicates) ==
    UNION {Range(duplicates[i].rows) : i \in DOMAIN duplicates}

\* a grouping whose phone pass also takes the rows of the email clusters
find_in_file_duplicates_phone_on_all_rows(data) ==
    Clusters(data, "email", {}, GroupKeys(data, "email", {}, {}))
    \o Clusters(data, "phone", {}, GroupKeys(data, "phone", {}, {}))

find_in_file_duplicates(data) ==
    LET by_email == Clusters(data, "email", {}, GroupKeys(data, "email", {}, {}))
        caught_rows == ClusterRows(by_email)
        by_phone == Clusters(data, "phone", caught_rows,
                             GroupKeys(data, "phone", caught_rows, {}))
    IN  by_email \o by_phone

\* the stored leads whose column equals one of the values (SQL IN, exact),
\* in id order
LeadsIn(db, column, values) ==
    SelectSeq(db, LAMBDA lead : lead[column] \in values)

\* existing_by_x[key(lead)] = lead over the query result: the last lead wins
LastWith(found, column, lowered, k) ==
    LET keyOf(lead) == IF lowered THEN Lower(lead[column]) ELSE lead[column]
        idx == {i \in DOMAIN found : keyOf(found[i]) = k}
    IN  found[CHOOSE i \in idx : \A j \in idx : j <= i]

HasKey(found, column, lowered, k) ==
    \E i \in DOMAIN found :
        (IF lowered THEN Lower(found[i][column]) ELSE found[i][column]) = k

\* the entry both exact passes and the smart pass build for a row and a lead
MatchEntry(row, lead, match_type) ==
    [import_row |-> row["_row_num"],
     import_data |-> [full_name |-> Get(row, "full_name"),
                      email |-> Get(row, "email"),
                      phone |-> Get(row, "phone")],
     existing_lead_id |-> lead.id,
     existing_lead |-> [id |-> lead.id, full_name |-> lead.full_name,
                        email |-> lead.email, phone |-> lead.phone,
                        status |-> lead.status],
     match_type |-> match_type]

RECURSIVE MatchExisting(_, _, _)
MatchExisting(data, email_leads, phone_leads) ==
    IF data = <<>> THEN <<>>
    ELSE LET row == Head(data)
             email == IF row["email"] = Absent THEN <<>> ELSE Lower(row["email"])
             phone == Get(row, "phone")
             entry ==
                IF HasKey(email_leads, "email", TRUE, email)
                THEN <<MatchEntry(row, LastWith(email_leads, "email", TRUE, email), "email")
                        @@ [match_value |-> email]>>
                ELSE IF Truthy(phone) /\ HasKey(phone_leads, "phone", FALSE, phone)
                     THEN <<MatchEntry(row, LastWith(phone_leads, "phone", FALSE, phone),
                                       "phone") @@ [match_value |-> phone]>>
                     ELSE <<>>
         IN  entry \o MatchExisting(Tail(data), email_leads, phone_leads)

\* an exact pass that leaves out the rows of in-file clusters
find_existing_outside_clusters(db, data) ==
    MatchExisting(
        SelectSeq(data, LAMBDA row :
            row["_row_num"] \notin ClusterRows(find_in_file_duplicates(data))),
        LeadsIn(db, "email", {Get(data[i], "email") : i \in DOMAIN data}),
        SelectSeq(LeadsIn(db, "phone", {Get(data[i], "phone") : i \in DOMAIN data}),
                  LAMBDA lead : Truthy(lead.phone)))

find_existing_duplicates(db, data) ==
    LET emails == {Get(data[i], "email") : i \in {j \in DOMAIN data : Truthy(Get(data[j], "email"))}}
        phones == {Get(data[i], "phone") : i \in {j \in DOMAIN data : Truthy(Get(data[j], "phone"))}}
        email_leads == IF emails # {} THEN LeadsIn(db, "email", emails) ELSE <<>>
        phone_leads == IF phones # {}
                       THEN SelectSeq(LeadsIn(db, "phone", phones),
                                      LAMBDA lead : Truthy(lead.phone))
                       ELSE <<>>
    IN  MatchExisting(data, email_leads, phone_leads)

\* difflib.SequenceMatcher.find_longest_match on a[alo..ahi], b[blo..bhi]
\* (inclusive): the longest common block, the earliest in a, then in b
find_longest_match(a, b, alo, ahi, blo, bhi) ==
    LET blocks == {t \in (alo..ahi) \X (blo..bhi) \X (1..(ahi - alo + 1)) :
                      /\ t[1] + t[3] - 1 <= ahi
                      /\ t[2] + t[3] - 1 <= bhi
                      /\ \A d \in 0..(t[3] - 1) : a[t[1] + d] = b[t[2] + d]}
    IN  IF blocks = {} THEN <<alo, blo, 0>>
        ELSE CHOOSE t \in blocks :
                \A u \in blocks :
                    \/ t[3] > u[3]
                    \/ t[3] = u[3] /\ t[1] < u[1]
                    \/ t[3] = u[3] /\ t[1] = u[1] /\ t[2] <= u[2]

\* the total size of the matching blocks get_matching_blocks finds
RECURSIVE MatchingSize(_, _, _, _, _, _)
MatchingSize(a, b, alo, ahi, blo, bhi) ==
    IF alo > ahi \/ blo > bhi THEN 0
    ELSE LET m == find_longest_match(a, b, alo, ahi, blo, bhi)
         IN  IF m[3] = 0 THEN 0
             ELSE m[3]
                  + MatchingSize(a, b, alo, m[1] - 1, blo, m[2] - 1)
                  + MatchingSize(a, b, m[1] + m[3], ahi, m[2] + m[3], bhi)

\* SequenceMatcher(None, n1, n2).ratio() = 2 * matches / (len(n1) + len(n2)),
\* as the pair (numerator, denominator); 0.0 is (0, 1)
name_similarity(name1, name2) ==
    IF ~Truthy(name1) \/ ~Truthy(name2) THEN <<0, 1>>
    ELSE LET n1 == Strip(Lower(name1))
             n2 == Strip(Lower(name2))
         IN  IF Len(n1) + Len(n2) = 0 THEN <<1, 1>>
             ELSE <<2 * MatchingSize(n1, n2, 1, Len(n1), 1, Len(n2)), Len(n1) + Len(n2)>>

\* similarity >= NAME_SIMILARITY_THRESHOLD
AtThreshold(sim) == 100 * sim[1] >= NAME_SIMILARITY_THRESHOLD * sim[2]

\* round(similarity * 100, 1), in tenths of a percent (ties to even)
RoundedPercent(sim) ==
    LET f == (1000 * sim[1]) \div sim[2]
        r == (1000 * sim[1]) % sim[2]
    IN  IF 2 * r > sim[2] THEN f + 1
        ELSE IF 2 * r = sim[2] THEN f + (f % 2)
        ELSE f

\* the first lead, in query order, whose name is similar enough
FirstSimilar(name, all_leads) ==
    LET hits == {i \in DOMAIN all_leads :
                    AtThreshold(name_similarity(name, all_leads[i].full_name))}
    IN  IF hits = {} THEN 0 ELSE CHOOSE i \in hits : \A j \in hits : i <= j

RECURSIVE SmartRows(_, _)
SmartRows(rows_with_company, all_leads) ==
    IF rows_with_company = <<>> THEN <<>>
    ELSE LET row == Head(rows_with_company)
             name == IF row["full_name"] = Absent THEN <<>> ELSE row["full_name"]
             i == FirstSimilar(name, all_leads)
         IN  (IF i = 0 THEN <<>>
              ELSE <<MatchEntry(row, all_leads[i], "smart")
                     @@ [similarity |->
                            RoundedPercent(name_similarity(name, all_leads[i].full_name))]>>)
             \o SmartRows(Tail(rows_with_company), all_leads)

\* a smart pass that also takes the rows the exact pass matched
find_smart_matches_on_all_rows(db, data, existing_duplicates) ==
    SmartRows(SelectSeq(data, LAMBDA row : Truthy(Get(row, "company"))),
              SubSeq(db, 1, IF Len(db) < SmartMatchLeadLimit THEN Len(db)
                            ELSE SmartMatchLeadLimit))

find_smart_matches(db, data, existing_duplicates) ==
    LET matched_rows == {existing_duplicates[i].import_row : i \in DOMAIN existing_duplicates}
        rows_with_company ==
            SelectSeq(data, LAMBDA row : Truthy(Get(row, "company"))
                                         /\ row["_row_num"] \notin matched_rows)
        all_leads == SubSeq(db, 1, IF Len(db) < SmartMatchLeadLimit THEN Len(db)
                                   ELSE SmartMatchLeadLimit)
    IN  IF rows_with_company = <<>> THEN <<>>
        ELSE SmartRows(rows_with_company, all_leads)

\* the dict detect_all_duplicates returns
DuplicateResult(in_file, existing, smart) ==
    [in_file_duplicates |-> in_file,
     existing_duplicates |-> existing,
     smart_matches |-> smart,
     total_duplicates |-> Len(in_file) + Len(existing) + Len(smart)]

\* the smart pass runs on the rows the exact pass left
SmartAfter(db, data, in_file, existing) ==
    DuplicateResult(in_file, existing, find_smart_matches(db, data, existing))

detect_all_duplicates(db, data) ==
    SmartAfter(db, data, find_in_file_duplicates(data), find_existing_duplicates(db, data))

\* ------------------------------------------------------------------------
\* Inputs of the model
\* ------------------------------------------------------------------------

\* the callers admitted by require_admin_or_manager (app/core/permissions.py)
Users == {[id |-> 1, role |-> "manager"],
          [id |-> 2, role |-> "manager"],
          [id |-> 3, role |-> "admin"]}

\* texts used by the rows and leads of the model
NAME_ANN_RAW == <<" ","a","n","n"," "," ","l","e","e">>
NAME_LEA_RAW == <<"A","n","n"," ","L","e","a">>
NAME_BOB_RAW == <<"b","o","b">>
EMAIL_A_RAW == <<"A","@","x",".","c","o"," ">>
EMAIL_B_RAW == <<"b","@","x",".","c","o">>
EMAIL_C_RAW == <<"c","@","x",".","c","o">>
EMAIL_BAD_RAW == <<"b","o","b","@","x">>
EMAIL_DOT_RAW == <<".","d","@","x",".","c","o">>
NAME_DOT_RAW == <<"d","o","t">>
PHONE_1_RAW == <<"+","1"," ","2","3","4","-","5","6","7">>
COMPANY_RAW == <<"A","c","m","e">>
SOURCE_WEB_RAW == <<"W","e","b">>
EMAIL_C_UPPER == <<"C","@","x",".","c","o">>
NAME_ANN == <<"A","n","n"," ","L","e","e">>
EMAIL_A == <<"a","@","x",".","c","o">>
PHONE_1 == <<"+","1","2","3","4","5","6","7">>

\* cells of the uploaded tables, as pandas hands them over
RowAnn == [name |-> NAME_ANN_RAW, email |-> EMAIL_A_RAW, phone |-> PHONE_1_RAW,
           company |-> COMPANY_RAW, source |-> SOURCE_WEB_RAW]
RowBob == [name |-> NAME_BOB_RAW, email |-> EMAIL_B_RAW, phone |-> PHONE_1_RAW,
           company |-> NaN, source |-> NaN]
RowLea == [name |-> NAME_LEA_RAW, email |-> EMAIL_C_RAW, phone |-> NaN,
           company |-> COMPANY_RAW, source |-> NaN]
RowBad == [name |-> NAME_BOB_RAW, email |-> EMAIL_BAD_RAW, phone |-> NaN,
           company |-> NaN, source |-> NaN]
\* a row the normalizer accepts and LeadCreate rejects (EmailStr)
RowDot == [name |-> NAME_DOT_RAW, email |-> EMAIL_DOT_RAW, phone |-> PHONE_1_RAW,
           company |-> NaN, source |-> NaN]
RawRows == {RowAnn, RowBob, RowLea, RowBad, RowDot}

\* an uploaded file: its rows and whether its bytes decode as UTF-8
Files == {[file_name |-> "leads.csv", utf8 |-> b, rows |-> r] :
            b \in BOOLEAN, r \in UNION {[1..n -> RawRows] : n \in 0..MaxRows}}

\* the files uploaded in Spec: rows that are in-file duplicates of each other
\* and match a stored lead, a fuzzy match next to an invalid row, a file that
\* is not UTF-8, and a file without data rows
WorkflowFiles ==
    {[file_name |-> "leads.csv", utf8 |-> TRUE, rows |-> <<RowAnn, RowAnn>>],
     [file_name |-> "leads.csv", utf8 |-> TRUE, rows |-> <<RowLea, RowBad>>],
     [file_name |-> "leads.csv", utf8 |-> FALSE, rows |-> <<RowBob>>],
     [file_name |-> "leads.csv", utf8 |-> TRUE, rows |-> <<>>]}

FullMapping == [name |-> "full_name", email |-> "email", phone |-> "phone",
                company |-> "company", source |-> "source"]
NameEmailMapping == [name |-> "full_name", email |-> "email"]

\* the bodies of submit_mapping requests
MappingSubmissions ==
    {[mappings |-> m, merge_rules |-> <<>>, ignored_columns |-> <<>>,
      save_as_template |-> t, template_name |-> "saved"] :
        m \in {FullMapping, NameEmailMapping}, t \in BOOLEAN}

\* DuplicateAction
DuplicateActions == {"skip", "update", "insert"}

\* the keys a request may use: str(row number) of every row, one number
\* that is no row of any file, and a key that is no number
DecisionKeys == {IntToStr(n) : n \in 2..(MaxRows + 2)} \cup {<<"x">>}

\* the duplicate_decisions maps of execute requests
DecisionMaps ==
    UNION {[K -> DuplicateActions] :
            K \in {D \in SUBSET DecisionKeys : Cardinality(D) <= MaxDecisions}}

\* the requests of Spec: the full mapping, saved as a template or not, and
\* every decision on the first data row
WorkflowSubmissions == {m \in MappingSubmissions : m.mappings = FullMapping}
WorkflowDecisions == {d \in DecisionMaps : DOMAIN d \subseteq {IntToStr(2)}}

\* the lead store before any import
LeadAnn == [id |-> 1, full_name |-> NAME_ANN, email |-> EMAIL_A, phone |-> PHONE_1,
            source |-> LeadSource_REFERRAL, status |-> "Contacted",
            assigned_to_id |-> 2, created_by_id |-> 3]
LeadLea == [id |-> 2, full_name |-> NAME_LEA_RAW, email |-> EMAIL_C_UPPER, phone |-> None,
            source |-> LeadSource_OTHER, status |-> "New",
            assigned_to_id |-> None, created_by_id |-> 1]
InitialLeadStores == {<<LeadAnn>>, <<LeadAnn, LeadLea>>}

\* the end-to-end scenario of the specification: a file of ten rows with the
\* columns name, email, phone, where the rows numbered first and second share
\* an email, the row numbered 2 has the email of the stored lead, and no
\* other value repeats
ScenarioRow(n, first, second) ==
    [name |-> <<"r","o","w"," ">> \o IntToStr(n),
     email |-> IF n = 2 THEN EMAIL_A_RAW
               ELSE <<"r">> \o IntToStr(IF n = second THEN first ELSE n)
                    \o <<"@","x",".","c","o">>,
     phone |-> <<"5","5","5","0","0","0">> \o IntToStr(n),
     company |-> NaN, source |-> NaN]

ScenarioFile(first, second) ==
    [file_name |-> "leads.csv", utf8 |-> TRUE,
     rows |-> [i \in 1..10 |-> ScenarioRow(i + 1, first, second)]]

\* the row numbers of the shared email: 4 and 7, and 4 with every other row
ScenarioPairs == {<<4, second>> : second \in 5..11}
ScenarioFiles == {ScenarioFile(pair[1], pair[2]) : pair \in ScenarioPairs}

\* the callers of SpecData: a manager uploads and maps, an admin executes
Importer == [id |-> 1, role |-> "manager"]
Executor == [id |-> 3, role |-> "admin"]

\* ------------------------------------------------------------------------
\* State
\* ------------------------------------------------------------------------

VARIABLES
    sessions,       \* import_sessions table: session id -> persisted record
    nextSessionId,  \* the id the store gives the next session
    leads,          \* leads table, in id order
    nextLeadId,     \* the id the store gives the next lead
    templates,      \* mapping_templates table, in id order
    accepted,       \* session id -> number of mappings update_mapping stored
    faults,         \* database failures so far
    resp,           \* the last request and the response it got
    inflight,       \* execute requests being served: request id -> its locals
    calc            \* a call of a pure service function: its input and result

vars == <<sessions, nextSessionId, leads, nextLeadId, templates, accepted, faults, resp,
          inflight, calc>>

SessionIds == 1..MaxSessions

\* ImportStatus
STATUS_ANALYZING == "analyzing"
STATUS_MAPPING == "mapping"
STATUS_NORMALIZING == "normalizing"
STATUS_DEDUPLICATING == "deduplicating"
STATUS_READY == "ready"
STATUS_COMPLETED == "completed"
STATUS_FAILED == "failed"
ImportStatus == {STATUS_ANALYZING, STATUS_MAPPING, STATUS_NORMALIZING,
                 STATUS_DEDUPLICATING, STATUS_READY, STATUS_COMPLETED, STATUS_FAILED}

\* HTTP status codes of the responses
HTTP_OK == 200
HTTP_BAD_REQUEST == 400
HTTP_FORBIDDEN == 403
HTTP_NOT_FOUND == 404
HTTP_SERVER_ERROR == 500

Response(op, session_id, user, code) ==
    [op |-> op, session_id |-> session_id, user |-> user, code |-> code]

\* a response (or the value a service call returns) with a list in its body
Reply(op, session_id, user, code, body) ==
    [op |-> op, session_id |-> session_id, user |-> user, code |-> code, body |-> body]

\* a value stored in a JSON column, as it reads back: an enum member is
\* stored as the text of its value
JsonValue(v) == IF HasValue(v) THEN ValueOf(v) ELSE v
JsonRow(row) == [k \in DOMAIN row |-> IF k = "_row_num" THEN row[k] ELSE JsonValue(row[k])]
JsonRows(rows) == [i \in DOMAIN rows |-> JsonRow(rows[i])]
JsonInvalidRows(rows) ==
    [i \in DOMAIN rows |-> [rows[i] EXCEPT !.normalized = JsonRow(@)]]

\* ------------------------------------------------------------------------
\* AnalyzerService (app/services/lead_import/analyzer.py)
\* ------------------------------------------------------------------------

\* clean_columns keeps a column with at least 10 percent of its cells filled
SparseThresholdPercent == 10

\* get_sample_rows(df, count=5)
SampleCount == 5

\* (kept columns, removed columns): empty and sparse columns are dropped
clean_columns(rows) ==
    LET filled(c) == Cardinality({i \in DOMAIN rows : rows[i][c] # NaN})
        drop(c) == filled(c) = 0 \/ 100 * filled(c) < SparseThresholdPercent * Len(rows)
    IN  <<SelectSeq(Columns, LAMBDA c : ~drop(c)), SelectSeq(Columns, LAMBDA c : drop(c))>>

\* CRM_FIELDS alias lookup: the field a column name is the name or an alias
\* of, "" when there is none
AliasField(col) ==
    IF col = "name" THEN "full_name" ELSE IF col \in CrmFields THEN col ELSE ""

\* PHONE_PATTERN = ^[\+]?[\d\s\-\(\)]{7,20}$
PHONE_PATTERN(s) ==
    LET body == IF s # <<>> /\ s[1] = "+" THEN Tail(s) ELSE s
    IN  /\ Len(body) >= 7 /\ Len(body) <= 20
        /\ \A i \in DOMAIN body :
                IsDigit(body[i]) \/ IsSpace(body[i]) \/ body[i] \in {"-", "(", ")"}

\* share of a sample that must be exceeded for a column to look like emails
EmailSharePercent == 80

\* share of a sample that must be exceeded for a column to look like phones
PhoneSharePercent == 70

\* df[col].dropna().head(100)
SniffSampleSize == 100
ColumnSample(rows, col) ==
    LET cells == [i \in DOMAIN rows |-> rows[i][col]]
        filled == SelectSeq(cells, LAMBDA v : v # NaN)
    IN  SubSeq(filled, 1, IF Len(filled) < SniffSampleSize THEN Len(filled)
                          ELSE SniffSampleSize)

\* sample.astype(str).str.match(pattern).sum()
EmailMatches(sample) == Cardinality({i \in DOMAIN sample : EMAIL_PATTERN(StrOf(sample[i]))})
PhoneMatches(sample) == Cardinality({i \in DOMAIN sample : PHONE_PATTERN(StrOf(sample[i]))})

\* a content detection that also takes a share of exactly the threshold
ContentFieldAtThreshold(sample, used_fields) ==
    IF sample = <<>> THEN ""
    ELSE IF "email" \notin used_fields
            /\ 100 * EmailMatches(sample) >= EmailSharePercent * Len(sample)
         THEN "email"
    ELSE IF "phone" \notin used_fields
            /\ 100 * PhoneMatches(sample) >= PhoneSharePercent * Len(sample)
         THEN "phone"
    ELSE ""

\* suggest_mappings, lines 149-166: the field the values of a column with no
\* alias hit look like, "" when they look like none
ContentField(sample, used_fields) ==
    IF sample = <<>> THEN ""
    ELSE IF "email" \notin used_fields
            /\ 100 * EmailMatches(sample) > EmailSharePercent * Len(sample)
         THEN "email"
    ELSE IF "phone" \notin used_fields
            /\ 100 * PhoneMatches(sample) > PhoneSharePercent * Len(sample)
         THEN "phone"
    ELSE ""

\* suggest_mappings, lines 136-166, for one column
SuggestField(col, sample, used_fields) ==
    IF AliasField(col) # "" /\ AliasField(col) \notin used_fields THEN AliasField(col)
    ELSE ContentField(sample, used_fields)

\* the (column, field) suggestions for the columns in order
RECURSIVE SuggestPairs(_, _, _)
SuggestNext(col, field, rest, rows, used_fields) ==
    IF field = "" THEN SuggestPairs(rest, rows, used_fields)
    ELSE <<<<col, field>>>> \o SuggestPairs(rest, rows, used_fields \cup {field})
SuggestPairs(columns, rows, used_fields) ==
    IF columns = <<>> THEN <<>>
    ELSE SuggestNext(Head(columns),
                     SuggestField(Head(columns), ColumnSample(rows, Head(columns)),
                                  used_fields),
                     Tail(columns), rows, used_fields)

PairsToDict(pairs) ==
    [c \in {pairs[i][1] : i \in DOMAIN pairs} |->
        pairs[CHOOSE i \in DOMAIN pairs : pairs[i][1] = c][2]]

suggest_mappings(columns, rows) == PairsToDict(SuggestPairs(columns, rows, {}))

\* df.head(count).fillna("") over the kept columns
get_sample_rows(rows, columns) ==
    [i \in 1..(IF Len(rows) < SampleCount THEN Len(rows) ELSE SampleCount) |->
        [c \in Range(columns) |-> IF rows[i][c] = NaN THEN <<>> ELSE rows[i][c]]]

\* the characters of the model in code point order
CodePoints == <<" ", "(", ")", "+", "-", ".">>
              \o <<"0","1","2","3","4","5","6","7","8","9">> \o <<"@">>
              \o UpperChars \o <<"_">> \o LowerChars \o <<"|">>
CodePoint(c) == CHOOSE i \in DOMAIN CodePoints : CodePoints[i] = c

\* a < b for two str values
RECURSIVE StrLess(_, _)
StrLess(a, b) ==
    IF b = <<>> THEN FALSE
    ELSE IF a = <<>> THEN TRUE
    ELSE IF a[1] = b[1] THEN StrLess(Tail(a), Tail(b))
    ELSE CodePoint(a[1]) < CodePoint(b[1])

\* sorted(names)
RECURSIVE Sorted(_)
Sorted(names) ==
    IF names = <<>> THEN <<>>
    ELSE LET least == CHOOSE i \in DOMAIN names :
                        \A j \in DOMAIN names :
                            ~StrLess(names[j], names[i]) /\ (names[j] = names[i] => i <= j)
         IN  <<names[least]>>
             \o Sorted([k \in 1..(Len(names) - 1) |->
                            IF k < least THEN names[k] ELSE names[k + 1]])

\* hashlib.md5(text.encode()).hexdigest(): the digest stands for the text it
\* is made from; no two texts of the model collide
Md5(text) == <<"md5">> \o text

\* the text of a column name of the uploaded tables
ColumnText(col) ==
    CASE col = "name" -> <<"n","a","m","e">>
      [] col = "email" -> <<"e","m","a","i","l">>
      [] col = "phone" -> <<"p","h","o","n","e">>
      [] col = "company" -> <<"c","o","m","p","a","n","y">>
      [] col = "source" -> <<"s","o","u","r","c","e">>
ColumnTexts(columns) == [i \in DOMAIN columns |-> ColumnText(columns[i])]

\* sorted([col.lower().strip() for col in columns])
NormalizedColumns(columns) ==
    Sorted([i \in DOMAIN columns |-> Strip(Lower(columns[i]))])

\* md5 of "|".join(normalized)
generate_column_signature(columns) ==
    Md5(JoinWith(NormalizedColumns(columns), <<"|">>))

\* the analysis of a file with data rows and at least one kept column
analyze(file) ==
    LET cleaned == clean_columns(file.rows)
    IN  [file_name |-> file.file_name,
         file_content |-> file,
         total_rows |-> Len(file.rows),
         detected_columns |-> cleaned[1],
         removed_columns |-> cleaned[2],
         suggested_mappings |-> suggest_mappings(cleaned[1], file.rows),
         sample_rows |-> get_sample_rows(file.rows, cleaned[1]),
         column_signature |-> generate_column_signature(ColumnTexts(cleaned[1]))]

\* ------------------------------------------------------------------------
\* TemplateManager (app/services/lead_import/template_manager.py)
\* ------------------------------------------------------------------------

create_template(tpls, user, name, mappings, merge_rules, ignored_columns, column_signature) ==
    Append(tpls, [id |-> Len(tpls) + 1, name |-> name, created_by_id |-> user.id,
                  is_default |-> FALSE, is_active |-> TRUE, mappings |-> mappings,
                  merge_rules |-> merge_rules, ignored_columns |-> ignored_columns,
                  column_signature |-> column_signature, use_count |-> 0])

\* the index of the active template with an id, 0 when get_template raises 404
get_template(tpls, template_id) ==
    IF \E i \in DOMAIN tpls : tpls[i].id = template_id /\ tpls[i].is_active
    THEN CHOOSE i \in DOMAIN tpls : tpls[i].id = template_id /\ tpls[i].is_active
    ELSE 0

\* .order_by(MappingTemplate.use_count.desc()).all() over some rows: every
\* listing of the rows in which the use counts never rise (the database
\* settles the order of equal counts)
OrderedByUse(tpls, rows) ==
    {[k \in DOMAIN order |-> tpls[order[k]]] :
        order \in {o \in [1..Cardinality(rows) -> rows] :
                    /\ \A k, l \in DOMAIN o : k # l => o[k] # o[l]
                    /\ \A k, l \in DOMAIN o :
                            k < l => tpls[o[k]].use_count >= tpls[o[l]].use_count}}

\* the listings get_all_templates() can return
get_all_templates(tpls) ==
    OrderedByUse(tpls, {i \in DOMAIN tpls : tpls[i].is_active})

\* a lookup by signature that also returns archived templates
find_matching_templates_with_archived(tpls, column_signature) ==
    OrderedByUse(tpls, {i \in DOMAIN tpls : tpls[i].column_signature = column_signature})

\* the listings find_matching_templates(column_signature) can return
find_matching_templates(tpls, column_signature) ==
    OrderedByUse(tpls, {i \in DOMAIN tpls :
                            /\ tpls[i].column_signature = column_signature
                            /\ tpls[i].is_active})

\* update_template(template_id, name=name) on the template get_template found
update_template(tpls, i, name) == [tpls EXCEPT ![i].name = name]

increment_use_count(tpls, i) == [tpls EXCEPT ![i].use_count = @ + 1]

\* delete_template: the template is archived, not removed
delete_template(tpls, i) == [tpls EXCEPT ![i].is_active = FALSE]

\* ------------------------------------------------------------------------
\* SessionManager (app/services/lead_import/session_manager.py)
\* ------------------------------------------------------------------------

create_session(user, file_name, file_data, analysis_result) ==
    [user_id |-> user.id,
     status |-> STATUS_MAPPING,
     error_message |-> None,
     file_name |-> file_name,
     file_data |-> file_data,
     detected_columns |-> analysis_result.detected_columns,
     suggested_mappings |-> analysis_result.suggested_mappings,
     sample_rows |-> analysis_result.sample_rows,
     total_rows |-> analysis_result.total_rows,
     user_mappings |-> <<>>,
     merge_rules |-> <<>>,
     ignored_columns |-> <<>>,
     valid_rows |-> 0,
     normalized_data |-> <<>>,
     validation_errors |-> <<>>,
     in_file_duplicates |-> <<>>,
     existing_duplicates |-> <<>>,
     smart_matches |-> <<>>,
     duplicate_decisions |-> <<>>,
     import_result |-> <<>>,
     inserted_lead_ids |-> <<>>,
     updated_lead_ids |-> <<>>]

\* a get_session that checks the record but not its owner
get_session_without_owner_check(session_id, user) ==
    IF session_id \notin DOMAIN sessions THEN HTTP_NOT_FOUND ELSE HTTP_OK

\* the HTTP status get_session ends with: 200 when it returns the session
get_session(session_id, user) ==
    IF session_id \notin DOMAIN sessions THEN HTTP_NOT_FOUND
    ELSE IF user.role # "admin" /\ sessions[session_id].user_id # user.id
         THEN HTTP_FORBIDDEN
         ELSE HTTP_OK

update_mapping(session, user_mappings, merge_rules, ignored_columns) ==
    [session EXCEPT !.user_mappings = user_mappings,
                    !.merge_rules = merge_rules,
                    !.ignored_columns = ignored_columns,
                    !.status = STATUS_NORMALIZING]

update_normalized_data(session, valid_rows, invalid_rows) ==
    [session EXCEPT !.normalized_data = JsonRows(valid_rows),
                    !.valid_rows = Len(valid_rows),
                    !.validation_errors = JsonInvalidRows(invalid_rows),
                    !.status = STATUS_DEDUPLICATING]

update_duplicates(session, duplicate_result) ==
    [session EXCEPT !.in_file_duplicates = duplicate_result.in_file_duplicates,
                    !.existing_duplicates = duplicate_result.existing_duplicates,
                    !.smart_matches = duplicate_result.smart_matches,
                    !.status = STATUS_READY]

update_duplicate_decisions(session, decisions) ==
    [session EXCEPT !.duplicate_decisions = decisions]

\* a completion that sends the session back to Mapping
complete_session_reopens(session, result, inserted_ids, updated_ids) ==
    [session EXCEPT !.status = STATUS_MAPPING,
                    !.import_result = result,
                    !.inserted_lead_ids = inserted_ids,
                    !.updated_lead_ids = updated_ids]

complete_session(session, result, inserted_ids, updated_ids) ==
    [session EXCEPT !.status = STATUS_COMPLETED,
                    !.import_result = result,
                    !.inserted_lead_ids = inserted_ids,
                    !.updated_lead_ids = updated_ids]

fail_session(session, error_message) ==
    [session EXCEPT !.status = STATUS_FAILED, !.error_message = error_message]

\* ------------------------------------------------------------------------
\* Lead schema and CRUD (app/schemas/lead.py, app/crud/lead.py)
\* ------------------------------------------------------------------------

\* LeadBase.full_name: max_length
FullNameMaxLength == 255

\* LeadBase.phone: max_length
PhoneMaxLength == 20

\* pydantic's EmailStr: an address by EMAIL_PATTERN whose local part and
\* domain have no empty dot-separated part
EmailStrValid(email) ==
    /\ EMAIL_PATTERN(email)
    /\ email[1] # "."
    /\ \A i \in 1..(Len(email) - 1) :
            ~(email[i] \in {".", "@"} /\ email[i + 1] \in {".", "@"})

\* LeadCreate(...) validates: the name is 1..255 characters, the phone is
\* absent or at most 20 characters, the email is an address
LeadCreateValid(full_name, email, phone) ==
    /\ Truthy(full_name) /\ Len(full_name) <= FullNameMaxLength
    /\ phone = None \/ Len(phone) <= PhoneMaxLength
    /\ Truthy(email) /\ EmailStrValid(email)

\* a create_lead that files the new lead as already contacted
create_lead_as_contacted(id, full_name, email, phone, source, created_by_id) ==
    [id |-> id, full_name |-> full_name, email |-> email, phone |-> phone,
     source |-> source, status |-> "Contacted", assigned_to_id |-> None,
     created_by_id |-> created_by_id]

create_lead(id, full_name, email, phone, source, created_by_id) ==
    [id |-> id, full_name |-> full_name, email |-> email, phone |-> phone,
     source |-> source, status |-> "New", assigned_to_id |-> None,
     created_by_id |-> created_by_id]

\* ------------------------------------------------------------------------
\* Endpoints (app/api/v1/endpoints/lead_import.py)
\* ------------------------------------------------------------------------

\* available_templates of the upload response
AvailableTemplates(matching_templates) ==
    [k \in DOMAIN matching_templates |->
        [id |-> matching_templates[k].id, name |-> matching_templates[k].name,
         mappings |-> matching_templates[k].mappings]]

\* POST /upload
Upload(user, file) ==
    /\ nextSessionId <= MaxSessions
    /\ LET cleaned == clean_columns(file.rows)
           session_id == nextSessionId
       IN  IF file.rows = <<>> \/ cleaned[1] = <<>>
           THEN /\ resp' = Response("upload", 0, user, HTTP_BAD_REQUEST)
                /\ UNCHANGED <<sessions, nextSessionId, accepted>>
           ELSE LET analysis == analyze(file)
                IN  /\ sessions' = sessions @@
                            (session_id :> create_session(user, analysis.file_name,
                                                          analysis.file_content, analysis))
                    /\ nextSessionId' = nextSessionId + 1
                    /\ accepted' = accepted @@ (session_id :> 0)
                    /\ \E matching_templates \in
                            find_matching_templates(templates, analysis.column_signature) :
                            resp' = Reply("upload", session_id, user, HTTP_OK,
                                          AvailableTemplates(matching_templates))
    /\ UNCHANGED <<leads, nextLeadId, templates, faults, inflight, calc>>

\* a request that get_session or a status guard turns away
Rejected(op, session_id, user, code) ==
    /\ resp' = Response(op, session_id, user, code)
    /\ UNCHANGED <<sessions, nextSessionId, leads, nextLeadId, templates, accepted, faults,
                   inflight, calc>>

\* a request whose first commit raises: nothing is persisted
FailedAtOnce(op, session_id, user) ==
    /\ resp' = Response(op, session_id, user, HTTP_SERVER_ERROR)
    /\ faults' = faults + 1
    /\ UNCHANGED <<sessions, nextSessionId, leads, nextLeadId, templates, accepted,
                   inflight, calc>>

\* the database can fail only MaxFaults times in a run
MayFail(fault) == fault = "none" \/ faults < MaxFaults

\* the places where submit_mapping can raise after its status guard: the
\* commits of the session manager and the template manager, and the queries
\* of the deduplicator
SubmitFaults == {"none", "update_mapping", "create_template",
                 "update_normalized_data", "update_duplicates"}

\* submit_mapping without its status guard
SubmitAllowedAnyStatus(session) == TRUE

\* session.status != ImportStatus.MAPPING is what submit_mapping rejects
SubmitAllowed(session) == session.status = STATUS_MAPPING

\* pd.read_csv(io.BytesIO(session.file_data)) decodes as UTF-8 only
ReadStoredFile(session) == session.file_data.utf8

\* save_as_template and template_name
WantsTemplate(mapping_data) ==
    mapping_data.save_as_template /\ mapping_data.template_name # ""

\* the database fails in the course of an accepted submit_mapping
SubmitRaised(session, wants_template, fault) ==
    \/ wants_template /\ fault = "create_template"
    \/ ReadStoredFile(session) /\ fault \in {"update_normalized_data", "update_duplicates"}

\* how far submit_mapping gets after update_mapping: 1 when it raises before
\* update_normalized_data commits, 2 when it raises before update_duplicates
\* commits, 3 when it returns
SubmitReach(session, wants_template, fault) ==
    IF wants_template /\ fault = "create_template" THEN 1
    ELSE IF ~ReadStoredFile(session) THEN 1
    ELSE IF fault = "update_normalized_data" THEN 1
    ELSE IF fault = "update_duplicates" THEN 2
    ELSE 3

\* submit_mapping, lines 159-175, on the rows normalize_data returned
StoreNormalized(session, normalized, db, reach) ==
    IF reach = 2 THEN update_normalized_data(session, normalized[1], normalized[2])
    ELSE update_duplicates(update_normalized_data(session, normalized[1], normalized[2]),
                           detect_all_duplicates(db, normalized[1]))

\* submit_mapping, lines 144-175, on the session update_mapping committed
ProcessMapping(session, mapping_data, db, reach) ==
    IF reach = 1 THEN session
    ELSE StoreNormalized(session,
                         normalize_data(session.file_data.rows, mapping_data.mappings,
                                        mapping_data.merge_rules),
                         db, reach)

\* submit_mapping, lines 131-142
SaveTemplate(tpls, user, mapping_data, session, fault) ==
    IF WantsTemplate(mapping_data) /\ fault # "create_template"
    THEN create_template(tpls, user, mapping_data.template_name,
                         mapping_data.mappings, mapping_data.merge_rules,
                         mapping_data.ignored_columns,
                         generate_column_signature(ColumnTexts(session.detected_columns)))
    ELSE tpls

\* submit_mapping, lines 123-175, once update_mapping has committed
SubmitAccepted(session_id, user, mapping_data, fault, session, reach) ==
    /\ sessions' = [sessions EXCEPT ![session_id] =
                        ProcessMapping(session, mapping_data, leads, reach)]
    /\ templates' = SaveTemplate(templates, user, mapping_data, session, fault)
    /\ accepted' = [accepted EXCEPT ![session_id] = @ + 1]
    /\ faults' = IF SubmitRaised(session, WantsTemplate(mapping_data), fault)
                 THEN faults + 1 ELSE faults
    /\ resp' = Response("submit_mapping", session_id, user,
                        IF reach = 3 THEN HTTP_OK ELSE HTTP_SERVER_ERROR)
    /\ UNCHANGED <<nextSessionId, leads, nextLeadId, inflight, calc>>

\* POST /{session_id}/mapping
SubmitMapping(session_id, user, mapping_data, fault) ==
    IF get_session(session_id, user) # HTTP_OK
    THEN Rejected("submit_mapping", session_id, user, get_session(session_id, user))
    ELSE IF ~SubmitAllowed(sessions[session_id])
    THEN Rejected("submit_mapping", session_id, user, HTTP_BAD_REQUEST)
    ELSE IF fault = "update_mapping"
    THEN FailedAtOnce("submit_mapping", session_id, user)
    ELSE SubmitAccepted(session_id, user, mapping_data, fault,
                        update_mapping(sessions[session_id], mapping_data.mappings,
                                       mapping_data.merge_rules,
                                       mapping_data.ignored_columns),
                        SubmitReach(sessions[session_id], WantsTemplate(mapping_data),
                                    fault))

\* GET /{session_id}/preview, /duplicates and /status: get_session, then a
\* read of the persisted record
ReadOps == {"preview", "duplicates", "status"}
ReadSession(op, session_id, user) ==
    Rejected(op, session_id, user, get_session(session_id, user))

\* a delete that turns a Completed or Failed session away
DeleteSessionUnlessTerminal(session_id, user) ==
    IF session_id \notin DOMAIN sessions
    THEN Rejected("delete", session_id, user, HTTP_NOT_FOUND)
    ELSE IF user.role # "admin" /\ sessions[session_id].user_id # user.id
    THEN Rejected("delete", session_id, user, HTTP_FORBIDDEN)
    ELSE IF sessions[session_id].status \in {STATUS_COMPLETED, STATUS_FAILED}
    THEN Rejected("delete", session_id, user, HTTP_BAD_REQUEST)
    ELSE /\ sessions' = [i \in DOMAIN sessions \ {session_id} |-> sessions[i]]
         /\ resp' = Response("delete", session_id, user, HTTP_OK)
         /\ UNCHANGED <<nextSessionId, leads, nextLeadId, templates, accepted, faults,
                        inflight, calc>>

\* DELETE /{session_id}
DeleteSession(session_id, user) ==
    LET code == get_session(session_id, user)
    IN  IF code # HTTP_OK THEN Rejected("delete", session_id, user, code)
        ELSE /\ sessions' = [i \in DOMAIN sessions \ {session_id} |-> sessions[i]]
             /\ resp' = Response("delete", session_id, user, HTTP_OK)
             /\ UNCHANGED <<nextSessionId, leads, nextLeadId, templates, accepted, faults,
                            inflight, calc>>

\* the places where execute can raise outside its per-row try block: the
\* commits that store the decisions and the completion
ExecuteFaults == {"none", "update_duplicate_decisions", "complete_session"}

\* execute without its status guard
ExecuteAllowedAnyStatus(session) == TRUE

\* execute with a guard that also lets a Completed session through
ExecuteAllowedAfterCompletion(session) ==
    session.status \in {STATUS_READY, STATUS_COMPLETED}

\* session.status != ImportStatus.READY is what execute rejects
ExecuteAllowed(session) == session.status = STATUS_READY

\* decisions.get(str(row_num), "skip")
DecisionFor(decisions, row_num) ==
    IF IntToStr(row_num) \in DOMAIN decisions THEN decisions[IntToStr(row_num)] ELSE "skip"

\* a skip set that takes the whole of every in-file cluster
InFileSkipsWholeCluster(in_file_duplicates) == ClusterRows(in_file_duplicates)

\* rows[1:] of every in-file cluster
InFileSkips(in_file_duplicates) ==
    UNION {{in_file_duplicates[i].rows[k] : k \in 2..Len(in_file_duplicates[i].rows)} :
            i \in DOMAIN in_file_duplicates}

\* the import rows of a match list whose decision is the given action
RowsDecided(matches, decisions, action) ==
    {matches[i].import_row :
        i \in {j \in DOMAIN matches : DecisionFor(decisions, matches[j].import_row) = action}}

\* a skip set that also takes every valid row the request decides to skip
skip_rows_of_any_decided_row(session, decisions) ==
    InFileSkips(session.in_file_duplicates)
    \cup RowsDecided(session.existing_duplicates, decisions, "skip")
    \cup RowsDecided(session.smart_matches, decisions, "skip")
    \cup {session.normalized_data[i]["_row_num"] :
            i \in {j \in DOMAIN session.normalized_data :
                    /\ IntToStr(session.normalized_data[j]["_row_num"]) \in DOMAIN decisions
                    /\ decisions[IntToStr(session.normalized_data[j]["_row_num"])] = "skip"}}

\* a skip set that leaves the in-file clusters to the decisions
skip_rows_by_decision_only(session, decisions) ==
    RowsDecided(session.existing_duplicates, decisions, "skip")
    \cup RowsDecided(session.smart_matches, decisions, "skip")

skip_rows(session, decisions) ==
    InFileSkips(session.in_file_duplicates)
    \cup RowsDecided(session.existing_duplicates, decisions, "skip")
    \cup RowsDecided(session.smart_matches, decisions, "skip")

\* an executor that knows no update: the row goes on to insertion
update_rows_ignoring_update(session, decisions, row_num) == 0

\* update_rows[row_num]: the smart match of a row overwrites its exact match
update_rows(session, decisions, row_num) ==
    LET last(matches) ==
            LET idx == {i \in DOMAIN matches :
                            /\ matches[i].import_row = row_num
                            /\ DecisionFor(decisions, row_num) = "update"}
            IN  IF idx = {} THEN 0
                ELSE matches[CHOOSE i \in idx : \A j \in idx : j <= i].existing_lead_id
    IN  IF last(session.smart_matches) # 0 THEN last(session.smart_matches)
        ELSE last(session.existing_duplicates)

\* row.get(key, default)
GetOr(row, key, default) == IF row[key] = Absent THEN default ELSE row[key]

\* an import step whose update also hands the lead to the importing user
ImportRowTakingOver(row, lead_id, user, acc) ==
    IF lead_id # 0 /\ \E i \in DOMAIN acc.leads : acc.leads[i].id = lead_id
    THEN LET i == CHOOSE j \in DOMAIN acc.leads : acc.leads[j].id = lead_id
         IN  [acc EXCEPT
                !.leads[i] = [acc.leads[i] EXCEPT
                    !.full_name = GetOr(row, "full_name", @),
                    !.assigned_to_id = user.id],
                !.updated_ids = Append(@, lead_id)]
    ELSE acc

\* one pass of the import loop over a row that is not skipped; acc carries
\* the lead store and inserted_ids, updated_ids, errors
ImportRow(row, lead_id, user, acc) ==
    IF lead_id # 0
    THEN LET idx == {i \in DOMAIN acc.leads : acc.leads[i].id = lead_id}
         IN  IF idx = {} THEN acc
             ELSE LET i == CHOOSE j \in idx : TRUE
                      lead == acc.leads[i]
                  IN  [acc EXCEPT
                        !.leads[i] = [lead EXCEPT
                            !.full_name = GetOr(row, "full_name", lead.full_name),
                            !.email = GetOr(row, "email", lead.email),
                            !.phone = GetOr(row, "phone", lead.phone)],
                        !.updated_ids = Append(@, lead_id)]
    ELSE LET source == Get(row, "source")
             source_value == IF HasValue(source) THEN source ELSE LeadSource_OTHER
         IN  IF row["full_name"] = Absent \/ row["email"] = Absent
                \/ ~LeadCreateValid(row["full_name"], row["email"], Get(row, "phone"))
             THEN [acc EXCEPT !.errors = @ + 1]
             ELSE [acc EXCEPT
                    !.leads = Append(@, create_lead(acc.nextLeadId, row["full_name"],
                                                    row["email"], Get(row, "phone"),
                                                    source_value, user.id)),
                    !.nextLeadId = @ + 1,
                    !.inserted_ids = Append(@, acc.nextLeadId)]

\* an import loop that a failing row brings to an end
RECURSIVE ImportRowsUntilFailure(_, _, _, _, _)
ImportRowsUntilFailure(rows, session, decisions, user, acc) ==
    IF rows = <<>> \/ acc.errors > 0 THEN acc
    ELSE ImportRowsUntilFailure(
            Tail(rows), session, decisions, user,
            IF Head(rows)["_row_num"] \in skip_rows(session, decisions) THEN acc
            ELSE ImportRow(Head(rows),
                           update_rows(session, decisions, Head(rows)["_row_num"]),
                           user, acc))

RECURSIVE ImportRows(_, _, _, _, _)
ImportRows(rows, session, decisions, user, acc) ==
    IF rows = <<>> THEN acc
    ELSE LET row == Head(rows)
             row_num == row["_row_num"]
         IN  ImportRows(Tail(rows), session, decisions, user,
                        IF row_num \in skip_rows(session, decisions) THEN acc
                        ELSE ImportRow(row, update_rows(session, decisions, row_num),
                                       user, acc))

\* POST /{session_id}/execute
ExecuteImport(session_id, user, decisions, fault) ==
    LET op == "execute"
        code == get_session(session_id, user)
    IN  IF code # HTTP_OK THEN Rejected(op, session_id, user, code)
        ELSE IF ~ExecuteAllowed(sessions[session_id])
        THEN Rejected(op, session_id, user, HTTP_BAD_REQUEST)
        ELSE IF fault = "update_duplicate_decisions"
        THEN FailedAtOnce(op, session_id, user)
        ELSE
        LET s1 == update_duplicate_decisions(sessions[session_id], decisions)
            done == ImportRows(s1.normalized_data, s1, decisions, user,
                               [leads |-> leads, nextLeadId |-> nextLeadId,
                                inserted_ids |-> <<>>, updated_ids |-> <<>>, errors |-> 0])
            result == [total_rows |-> s1.total_rows,
                       inserted |-> Len(done.inserted_ids),
                       updated |-> Len(done.updated_ids),
                       skipped |-> Cardinality(skip_rows(s1, decisions)),
                       errors |-> done.errors]
            raised == fault = "complete_session"
        IN  /\ sessions' = [sessions EXCEPT ![session_id] =
                                IF raised THEN s1
                                ELSE complete_session(s1, result, done.inserted_ids,
                                                      done.updated_ids)]
            /\ leads' = done.leads
            /\ nextLeadId' = done.nextLeadId
            /\ resp' = Response(op, session_id, user,
                                IF raised THEN HTTP_SERVER_ERROR ELSE HTTP_OK)
            /\ faults' = IF raised THEN faults + 1 ELSE faults
            /\ UNCHANGED <<nextSessionId, templates, accepted, inflight, calc>>

\* ------------------------------------------------------------------------
\* Specifications: requests are served one at a time
\* ------------------------------------------------------------------------

\* no pure function is being called
NoCall == [fn |-> "none"]

NoRequest == Response("none", 0, [id |-> 0, role |-> "none"], HTTP_OK)

\* Spec: every caller and every endpoint, over a few uploaded files

Init ==
    /\ sessions = <<>>
    /\ nextSessionId = 1
    /\ leads = <<LeadAnn>>
    /\ nextLeadId = Len(leads) + 1
    /\ templates = <<>>
    /\ accepted = <<>>
    /\ faults = 0
    /\ resp = NoRequest
    /\ inflight = <<>>
    /\ calc = NoCall

UploadStep == \E user \in Users, file \in WorkflowFiles : Upload(user, file)

SubmitMappingStep ==
    \E session_id \in SessionIds, user \in Users,
       mapping_data \in WorkflowSubmissions, fault \in SubmitFaults :
        MayFail(fault) /\ SubmitMapping(session_id, user, mapping_data, fault)

ReadSessionStep ==
    \E op \in ReadOps, session_id \in SessionIds, user \in Users :
        ReadSession(op, session_id, user)

ExecuteImportStep ==
    \E session_id \in SessionIds, user \in Users,
       decisions \in WorkflowDecisions, fault \in ExecuteFaults :
        MayFail(fault) /\ ExecuteImport(session_id, user, decisions, fault)

DeleteSessionStep ==
    \E session_id \in SessionIds, user \in Users : DeleteSession(session_id, user)

Next ==
    \/ UploadStep
    \/ SubmitMappingStep
    \/ ReadSessionStep
    \/ ExecuteImportStep
    \/ DeleteSessionStep

Spec == Init /\ [][Next]_vars

\* SpecData: one caller runs the pipeline over every file of the bounds,
\* against each initial lead store

InitData ==
    /\ sessions = <<>>
    /\ nextSessionId = 1
    /\ leads \in InitialLeadStores
    /\ nextLeadId = Len(leads) + 1
    /\ templates = <<>>
    /\ accepted = <<>>
    /\ faults = 0
    /\ resp = NoRequest
    /\ inflight = <<>>
    /\ calc = NoCall

UploadData == \E file \in Files : Upload(Importer, file)

SubmitMappingData ==
    \E session_id \in SessionIds, mapping_data \in MappingSubmissions :
        SubmitMapping(session_id, Importer, mapping_data, "none")

ExecuteImportData ==
    \E session_id \in SessionIds, decisions \in DecisionMaps :
        ExecuteImport(session_id, Executor, decisions, "none")

NextData ==
    \/ UploadData
    \/ SubmitMappingData
    \/ ExecuteImportData

SpecData == InitData /\ [][NextData]_vars

\* The end-to-end scenario: one import into the store with one lead; the
\* manager uploads one of the ten-row files and maps it, the admin executes

UploadScenario ==
    /\ sessions = <<>>
    /\ \E file \in ScenarioFiles : Upload(Importer, file)

NextScenario ==
    \/ UploadScenario
    \/ SubmitMappingData
    \/ ExecuteImportData

SpecScenario == Init /\ [][NextScenario]_vars

\* ------------------------------------------------------------------------
\* Properties of the session state machine (checked under Spec)
\* ------------------------------------------------------------------------

\* the place of a status in Analyzing < Mapping < Normalizing <
\* Deduplicating < Ready < Completed
StatusRank(status) ==
    CASE status = STATUS_ANALYZING -> 1
      [] status = STATUS_MAPPING -> 2
      [] status = STATUS_NORMALIZING -> 3
      [] status = STATUS_DEDUPLICATING -> 4
      [] status = STATUS_READY -> 5
      [] status = STATUS_COMPLETED -> 6
      [] OTHER -> 0

TerminalStatuses == {STATUS_COMPLETED, STATUS_FAILED}

\* the operations that address one session
SessionOps == {"submit_mapping", "execute", "delete"} \cup ReadOps

\* the caller of the last request passes get_session's ownership check
Permitted(session, user) == user.role = "admin" \/ session.user_id = user.id

\* C1: in every step the status of a session either stays, or moves to a
\* later place of the order Analyzing < Mapping < Normalizing <
\* Deduplicating < Ready < Completed, or becomes Failed.
C1_StatusNeverBackward ==
    [][\A s \in DOMAIN sessions \cap DOMAIN sessions' :
        \/ sessions'[s].status = sessions[s].status
        \/ sessions'[s].status = STATUS_FAILED
        \/ /\ StatusRank(sessions[s].status) > 0
           /\ StatusRank(sessions'[s].status) > StatusRank(sessions[s].status)]_vars

\* a session that went all the way from Mapping to Completed
C1_Witness ==
    \E s \in DOMAIN sessions :
        sessions[s].status = STATUS_COMPLETED /\ accepted[s] = 1

\* C2: an execute request on a session whose status is not Ready is
\* rejected (400, or 403 for a caller that is neither owner nor admin) and
\* changes no lead and no field of any session, duplicate_decisions
\* included; an execute request answered 200 found the session Ready.
C2_ExecuteOnlyWhenReady ==
    [][(resp'.op = "execute" /\ resp'.session_id \in DOMAIN sessions) =>
        /\ sessions[resp'.session_id].status # STATUS_READY =>
            /\ resp'.code \in {HTTP_BAD_REQUEST, HTTP_FORBIDDEN}
            /\ leads' = leads /\ nextLeadId' = nextLeadId
            /\ sessions' = sessions
        /\ resp'.code = HTTP_OK =>
            /\ sessions[resp'.session_id].status = STATUS_READY
            /\ sessions'[resp'.session_id].status = STATUS_COMPLETED]_vars

\* a second execute request on a Completed session, turned away with 400
C2_Witness ==
    /\ resp.op = "execute" /\ resp.code = HTTP_BAD_REQUEST
    /\ resp.session_id \in DOMAIN sessions
    /\ sessions[resp.session_id].status = STATUS_COMPLETED
    /\ Len(leads) > 1

\* C3: a submit_mapping request on a session whose status is not Mapping is
\* rejected and changes no field of any session (mapping, merge rules,
\* ignored columns, normalized rows, duplicate lists) and creates no
\* template; update_mapping stores a mapping at most once per session.
C3_SubmitOnlyWhenMapping ==
    [][/\ (resp'.op = "submit_mapping" /\ resp'.session_id \in DOMAIN sessions
           /\ sessions[resp'.session_id].status # STATUS_MAPPING) =>
            /\ resp'.code \in {HTTP_BAD_REQUEST, HTTP_FORBIDDEN}
            /\ sessions' = sessions
            /\ templates' = templates
            /\ accepted' = accepted
       /\ \A s \in DOMAIN accepted' : accepted'[s] <= 1]_vars

\* a submit_mapping request turned away with 400 after one was accepted
C3_Witness ==
    /\ resp.op = "submit_mapping" /\ resp.code = HTTP_BAD_REQUEST
    /\ resp.session_id \in DOMAIN sessions
    /\ accepted[resp.session_id] = 1
    /\ sessions[resp.session_id].user_mappings # <<>>

\* C4 as the specification states it: after a submit_mapping request has
\* been answered, with a result or with an error, the session is not in
\* Normalizing or Deduplicating.
C4_NeverLeftInTransit ==
    \A s \in DOMAIN sessions :
        sessions[s].status \notin {STATUS_NORMALIZING, STATUS_DEDUPLICATING}

\* C5 as the specification states it: an execute request on a Ready session
\* ends with the session Completed, or Failed with a non-empty error
\* message; it never leaves the session Ready.
C5_ExecuteFailureIsRecorded ==
    [][(/\ resp'.op = "execute" /\ resp'.session_id \in DOMAIN sessions
        /\ sessions[resp'.session_id].status = STATUS_READY
        /\ Permitted(sessions[resp'.session_id], resp'.user)) =>
        \/ sessions'[resp'.session_id].status = STATUS_COMPLETED
        \/ /\ sessions'[resp'.session_id].status = STATUS_FAILED
           /\ Truthy(sessions'[resp'.session_id].error_message)]_vars

\* C6: once a session is Completed or Failed, a submit_mapping, execute,
\* preview, duplicates or status request leaves the record as it is.
C6_TerminalIsFrozen ==
    [][\A s \in DOMAIN sessions :
        (sessions[s].status \in TerminalStatuses
         /\ resp'.op \in {"submit_mapping", "execute"} \cup ReadOps) =>
            /\ s \in DOMAIN sessions'
            /\ sessions'[s] = sessions[s]]_vars

\* a Completed session after its owner or an admin asked for its preview
C6_Witness ==
    /\ resp.op = "preview" /\ resp.code = HTTP_OK
    /\ resp.session_id \in DOMAIN sessions
    /\ sessions[resp.session_id].status = STATUS_COMPLETED

C8_NotFoundAndForbidden ==
    [][resp'.op \in SessionOps =>
        /\ resp'.session_id \notin DOMAIN sessions =>
            /\ resp'.code = HTTP_NOT_FOUND
            /\ sessions' = sessions /\ templates' = templates /\ leads' = leads
        /\ (/\ resp'.session_id \in DOMAIN sessions
            /\ ~Permitted(sessions[resp'.session_id], resp'.user)) =>
            /\ resp'.code = HTTP_FORBIDDEN
            /\ sessions' = sessions /\ templates' = templates /\ leads' = leads]_vars

\* an execute request on a Ready session by a manager who does not own it
C8_Witness ==
    /\ resp.op = "execute" /\ resp.code = HTTP_FORBIDDEN
    /\ resp.session_id \in DOMAIN sessions
    /\ sessions[resp.session_id].status = STATUS_READY
    /\ resp.user.role = "manager"

\* ------------------------------------------------------------------------
\* Properties of duplicate detection (checked under SpecData)
\* ------------------------------------------------------------------------

\* the import rows of a list of matches
MatchedRows(matches) == {matches[i].import_row : i \in DOMAIN matches}

\* a stored lead has the row's email, or the row's phone
RowMatchesLead(row, db) ==
    \E i \in DOMAIN db :
        \/ Truthy(Get(row, "email")) /\ db[i].email = Get(row, "email")
        \/ Truthy(Get(row, "phone")) /\ db[i].phone = Get(row, "phone")

\* C9 as the specification states it: no row number of an in-file cluster
\* is also in existing_duplicates or in smart_matches.
C9_ClusterRowsNotMatched ==
    \A s \in DOMAIN sessions :
        ClusterRows(sessions[s].in_file_duplicates)
        \cap (MatchedRows(sessions[s].existing_duplicates)
              \cup MatchedRows(sessions[s].smart_matches)) = {}

\* C9, amended: the exact pass looks at every valid row, rows of in-file
\* clusters included: on a Ready session a row is in existing_duplicates
\* exactly when a stored lead has its email or its phone.
C9_ExactPassTakesEveryRow ==
    \A s \in DOMAIN sessions :
        sessions[s].status = STATUS_READY =>
            \A i \in DOMAIN sessions[s].normalized_data :
                sessions[s].normalized_data[i]["_row_num"]
                    \in MatchedRows(sessions[s].existing_duplicates)
                <=> RowMatchesLead(sessions[s].normalized_data[i], leads)

\* a Ready session with a row that is in an in-file cluster and in
\* existing_duplicates
C9_Witness ==
    \E s \in DOMAIN sessions :
        /\ sessions[s].status = STATUS_READY
        /\ ClusterRows(sessions[s].in_file_duplicates)
           \cap MatchedRows(sessions[s].existing_duplicates) # {}

\* C10: a row number is at most once in existing_duplicates, at most once
\* in smart_matches, and never in both.
C10_OneMatchPerRow ==
    \A s \in DOMAIN sessions :
        /\ Cardinality(MatchedRows(sessions[s].existing_duplicates))
           = Len(sessions[s].existing_duplicates)
        /\ Cardinality(MatchedRows(sessions[s].smart_matches))
           = Len(sessions[s].smart_matches)
        /\ MatchedRows(sessions[s].existing_duplicates)
           \cap MatchedRows(sessions[s].smart_matches) = {}

\* a session with an exact match on one row and a smart match on another,
\* where two stored leads have a name close to the smart row's
C10_Witness ==
    \E s \in DOMAIN sessions :
        /\ sessions[s].existing_duplicates # <<>>
        /\ sessions[s].smart_matches # <<>>
        /\ sessions[s].status = STATUS_READY
        /\ \E i \in DOMAIN sessions[s].smart_matches :
            /\ sessions[s].smart_matches[i].existing_lead_id = leads[1].id
            /\ Len(leads) > 1
            /\ sessions[s].smart_matches[i].import_data.full_name = leads[2].full_name

\* ------------------------------------------------------------------------
\* Properties of in-file clusters (checked under SpecData)
\* ------------------------------------------------------------------------

\* the sessions whose rows have been through duplicate detection
Detected(s) == sessions[s].status \in {STATUS_READY, STATUS_COMPLETED}

\* the row numbers of the valid rows with a given value of a field
RowsWith(data, key, value) ==
    {data[i]["_row_num"] : i \in {j \in DOMAIN data : Get(data[j], key) = value}}

\* the entries of in_file_duplicates of one match type
ClustersOfType(duplicates, match_type) ==
    {i \in DOMAIN duplicates : duplicates[i].match_type = match_type}

\* a sequence of row numbers in file order
InFileOrder(rows) == \A i, j \in DOMAIN rows : i < j => rows[i] < rows[j]

\* C11: the email clusters of in_file_duplicates are exactly the complete
\* sets of valid rows with one same normalized email and at least two rows,
\* each reported once with its rows in file order; a row with a unique email
\* is in no email cluster.
C11_EmailClustersAreSharedEmails ==
    \A s \in DOMAIN sessions :
        Detected(s) =>
            LET data == sessions[s].normalized_data
                dups == sessions[s].in_file_duplicates
                byEmail == ClustersOfType(dups, "email")
            IN  /\ \A i \in byEmail :
                    /\ Range(dups[i].rows) = RowsWith(data, "email", dups[i].match_value)
                    /\ Len(dups[i].rows) >= 2
                    /\ InFileOrder(dups[i].rows)
                /\ \A i, j \in byEmail :
                    dups[i].match_value = dups[j].match_value => i = j
                /\ \A r \in DOMAIN data :
                    Cardinality(RowsWith(data, "email", Get(data[r], "email"))) >= 2
                    => \E i \in byEmail : dups[i].match_value = Get(data[r], "email")

\* rows a, a, b: one email cluster with the two a rows, the b row in none
C11_Witness ==
    \E s \in DOMAIN sessions :
        /\ Detected(s)
        /\ Len(sessions[s].normalized_data) = 3
        /\ ClustersOfType(sessions[s].in_file_duplicates, "email") = {1}
        /\ sessions[s].in_file_duplicates[1].rows = <<2, 3>>
        /\ Get(sessions[s].normalized_data[3], "email")
           # Get(sessions[s].normalized_data[1], "email")

\* C12: a phone cluster has at least two rows, all with the cluster's phone
\* and none of them in an email cluster; no row number is in two in-file
\* clusters, nor twice in one.
C12_PhoneClustersOutsideEmailClusters ==
    \A s \in DOMAIN sessions :
        Detected(s) =>
            LET data == sessions[s].normalized_data
                dups == sessions[s].in_file_duplicates
                byEmail == ClustersOfType(dups, "email")
                byPhone == ClustersOfType(dups, "phone")
            IN  /\ \A i \in byPhone :
                    /\ Len(dups[i].rows) >= 2
                    /\ Range(dups[i].rows) \subseteq RowsWith(data, "phone", dups[i].match_value)
                    /\ \A j \in byEmail : Range(dups[i].rows) \cap Range(dups[j].rows) = {}
                /\ \A i, j \in DOMAIN dups :
                    i # j => Range(dups[i].rows) \cap Range(dups[j].rows) = {}
                /\ \A i \in DOMAIN dups : Cardinality(Range(dups[i].rows)) = Len(dups[i].rows)

\* rows a, a, b where b has the phone of the a rows: the a rows are an
\* email cluster and b, alone outside it, is in no phone cluster
C12_Witness ==
    \E s \in DOMAIN sessions :
        /\ Detected(s)
        /\ Len(sessions[s].normalized_data) = 3
        /\ ClustersOfType(sessions[s].in_file_duplicates, "email") = {1}
        /\ ClustersOfType(sessions[s].in_file_duplicates, "phone") = {}
        /\ Truthy(Get(sessions[s].normalized_data[1], "phone"))
        /\ \A i \in DOMAIN sessions[s].normalized_data :
            Get(sessions[s].normalized_data[i], "phone")
            = Get(sessions[s].normalized_data[1], "phone")

\* ------------------------------------------------------------------------
\* Properties of the match against stored leads (checked under SpecData)
\* ------------------------------------------------------------------------

\* C13 as the specification states it: on a Ready session every valid row
\* whose email equals a stored lead's email, ignoring case on both sides, is
\* in existing_duplicates with match type email.
C13_EmailMatchIgnoresCase ==
    \A s \in DOMAIN sessions :
        sessions[s].status = STATUS_READY =>
            \A i \in DOMAIN sessions[s].normalized_data :
                LET row == sessions[s].normalized_data[i]
                    existing == sessions[s].existing_duplicates
                IN  (\E l \in DOMAIN leads :
                        /\ Truthy(Get(row, "email"))
                        /\ Lower(leads[l].email) = Lower(Get(row, "email")))
                    => \E k \in DOMAIN existing :
                        /\ existing[k].import_row = row["_row_num"]
                        /\ existing[k].match_type = "email"

\* ------------------------------------------------------------------------
\* Properties of execute (checked under SpecData): each is about the step
\* in which execute takes a Ready session to Completed, and compares the
\* lead store and the session after the step with those before it
\* ------------------------------------------------------------------------

Completed(s) == sessions[s].status = STATUS_COMPLETED

\* the step in which execute completes session s
ExecuteDone(s) ==
    /\ s \in DOMAIN sessions
    /\ sessions[s].status = STATUS_READY
    /\ s \in DOMAIN sessions'
    /\ sessions'[s].status = STATUS_COMPLETED

\* the rows of an in-file cluster that come after another row of it
NonFirstRows(s) ==
    LET dups == sessions[s].in_file_duplicates
    IN  {r \in ClusterRows(dups) :
            \E i \in DOMAIN dups :
                r \in Range(dups[i].rows) /\ \E q \in Range(dups[i].rows) : q < r}

\* the stored decision for a row number, "none" when the map has none
Decided(s, row_num) ==
    IF IntToStr(row_num) \in DOMAIN sessions[s].duplicate_decisions
    THEN sessions[s].duplicate_decisions[IntToStr(row_num)]
    ELSE "none"

\* the rows reported as matching a stored lead, exactly or by name
Matched(s) ==
    MatchedRows(sessions[s].existing_duplicates)
    \cup MatchedRows(sessions[s].smart_matches)

\* the row numbers of the valid rows
ValidRows(s) ==
    {sessions[s].normalized_data[i]["_row_num"] : i \in DOMAIN sessions[s].normalized_data}

\* the valid row with a given number
RowOf(s, row_num) ==
    sessions[s].normalized_data[
        CHOOSE i \in DOMAIN sessions[s].normalized_data :
            sessions[s].normalized_data[i]["_row_num"] = row_num]

\* the stored lead with a given id
LeadOf(id) == leads[CHOOSE i \in DOMAIN leads : leads[i].id = id]

\* a lead carries the name and the email of a row, and its phone when the
\* row has one
CarriesRow(lead, row) ==
    /\ lead.full_name = Get(row, "full_name")
    /\ lead.email = Get(row, "email")
    /\ row["phone"] \in {lead.phone, Absent}

\* the rows execute processes: valid, not a later row of an in-file
\* cluster, and not a matched row without the decision update or insert
ProcessedRows(s) ==
    {r \in ValidRows(s) \ NonFirstRows(s) :
        r \in Matched(s) => Decided(s, r) \in {"update", "insert"}}

\* the later rows of the clusters are all among the skipped
NonFirstRowsSkipped(s) ==
    LET res == sessions[s].import_result
    IN  /\ res.inserted + res.updated + res.errors = Cardinality(ProcessedRows(s))
        /\ res.skipped = Cardinality(ValidRows(s) \ ProcessedRows(s))
        /\ NonFirstRows(s) \subseteq ValidRows(s) \ ProcessedRows(s)
        /\ \A k \in DOMAIN sessions[s].inserted_lead_ids :
            \E r \in ProcessedRows(s) :
                CarriesRow(LeadOf(sessions[s].inserted_lead_ids[k]), RowOf(s, r))
        /\ \A k \in DOMAIN sessions[s].updated_lead_ids :
            \E r \in ProcessedRows(s) :
                CarriesRow(LeadOf(sessions[s].updated_lead_ids[k]), RowOf(s, r))

\* C14: in the step that executes a session the rows that are not the first
\* of their in-file cluster are all among the skipped, whatever the decisions
\* say: the rows inserted, updated or failed are as many as the valid rows
\* outside them that are not skipped by decision, skipped counts the rest,
\* and every inserted or updated lead carries the values of a processed row.
C14_NonFirstRowsAreSkipped ==
    [][\A s \in SessionIds : ExecuteDone(s) => NonFirstRowsSkipped(s)']_vars

\* an executed session where the second row of a cluster had the explicit
\* decision insert and nothing was inserted
C14_Witness ==
    \E s \in DOMAIN sessions :
        /\ Completed(s)
        /\ \E r \in NonFirstRows(s) : Decided(s, r) = "insert"
        /\ sessions[s].import_result.inserted = 0
        /\ sessions[s].import_result.skipped = 2

\* the entry that reports a matched row
MatchOf(s, row_num) ==
    LET all == sessions[s].existing_duplicates \o sessions[s].smart_matches
    IN  all[CHOOSE i \in DOMAIN all : all[i].import_row = row_num]

\* the matched rows that execute looks the decision up for
DecidedRows(s) == Matched(s) \ NonFirstRows(s)

\* the leads some row with the decision update is matched to
UpdateTargets(s) ==
    {MatchOf(s, r).existing_lead_id : r \in {q \in DecidedRows(s) : Decided(s, q) = "update"}}

\* the inserted leads that carry a row's values
InsertedFor(s, row_num) ==
    {k \in DOMAIN sessions[s].inserted_lead_ids :
        CarriesRow(LeadOf(sessions[s].inserted_lead_ids[k]), RowOf(s, row_num))}

\* what the schema of a new lead accepts of a row
Insertable(row) ==
    LeadCreateValid(Get(row, "full_name"), Get(row, "email"), Get(row, "phone"))

\* the step leaves the lead with this id as it was and out of updated_lead_ids
Untouched(s, id) ==
    /\ \A i \in DOMAIN leads : leads[i].id = id => leads'[i] = leads[i]
    /\ id \notin Range(sessions'[s].updated_lead_ids)

\* the last row, in file order, that updates the lead of row r
LastUpdateOf(s, r) ==
    \A q \in DecidedRows(s) :
        (/\ Decided(s, q) = "update"
         /\ MatchOf(s, q).existing_lead_id = MatchOf(s, r).existing_lead_id)
        => q <= r

\* the outcome of a matched row under the stored decisions
DecisionApplied(s, r) ==
    LET id == MatchOf(s, r).existing_lead_id
        d == Decided(s, r)
    IN  /\ d = "update" =>
            /\ id \in Range(sessions[s].updated_lead_ids)
            /\ InsertedFor(s, r) = {}
            /\ LastUpdateOf(s, r) => CarriesRow(LeadOf(id), RowOf(s, r))
        /\ d = "insert" =>
            Cardinality(InsertedFor(s, r)) = (IF Insertable(RowOf(s, r)) THEN 1 ELSE 0)
        /\ d \in {"none", "skip"} => InsertedFor(s, r) = {}

\* C15: in the step that executes a session, for every matched row that is
\* not a later row of an in-file cluster: with no decision or skip nothing is
\* inserted for the row; with update the matched lead is in updated_lead_ids
\* and carries the row's name, email and phone (those of the last such row
\* when several update one lead) and nothing is inserted for the row; with
\* insert the row goes to plain insertion (one new lead in inserted_lead_ids
\* carries it, unless the schema rejects the row); and a matched lead that no
\* row updates is left as it was.
C15_DecisionsAreApplied ==
    [][\A s \in SessionIds :
        ExecuteDone(s) =>
            \A r \in DecidedRows(s) :
                /\ DecisionApplied(s, r)'
                /\ MatchOf(s, r).existing_lead_id \notin UpdateTargets(s)'
                   => Untouched(s, MatchOf(s, r).existing_lead_id)
      ]_vars

\* an executed session where one matched row had the decision update and
\* changed its lead's name, and another matched row had no decision
C15_Witness ==
    \E s \in DOMAIN sessions :
        /\ Completed(s)
        /\ \E r \in DecidedRows(s) :
            /\ Decided(s, r) = "update"
            /\ MatchOf(s, r).existing_lead.full_name
               # LeadOf(MatchOf(s, r).existing_lead_id).full_name
        /\ \E r \in DecidedRows(s) : Decided(s, r) = "none"

\* the rows execute sends to insertion: valid, not a later row of an in-file
\* cluster, and either unmatched or matched with the decision insert
InsertRows(s) ==
    {r \in ValidRows(s) \ NonFirstRows(s) : r \in Matched(s) => Decided(s, r) = "insert"}

\* the rows sent to insertion that the schema accepts
AcceptedRows(s) == {r \in InsertRows(s) : Insertable(RowOf(s, r))}

\* every accepted row has its one lead, new and created by the user
RowsInserted(s, user_id) ==
    LET ids == sessions[s].inserted_lead_ids
    IN  /\ \A r \in AcceptedRows(s) :
            /\ Cardinality(InsertedFor(s, r)) = 1
            /\ \A k \in InsertedFor(s, r) :
                /\ LeadOf(ids[k]).status = "New"
                /\ LeadOf(ids[k]).created_by_id = user_id
        /\ Len(ids) = Cardinality(AcceptedRows(s))
        /\ Cardinality(Range(ids)) = Len(ids)
        /\ sessions[s].import_result.errors
           = Cardinality(InsertRows(s) \ AcceptedRows(s))

\* C16: in the step that executes a session every row sent to insertion that
\* the schema accepts gets exactly one lead in inserted_lead_ids that carries
\* it, with status New and the executing user as creator; the rejected ones
\* are the errors; the leads the step adds to the store are exactly the
\* inserted ones, so no lead comes from an invalid, skipped or updating row.
C16_RemainingRowsAreInserted ==
    [][\A s \in SessionIds :
        ExecuteDone(s) =>
            /\ RowsInserted(s, resp.user.id)'
            /\ Len(leads') = Len(leads) + Len(sessions'[s].inserted_lead_ids)
            /\ Range(sessions'[s].inserted_lead_ids)
               = {leads'[i].id : i \in (Len(leads) + 1)..Len(leads')}
            /\ \A i \in DOMAIN leads : leads'[i].id = leads[i].id
            /\ \A i \in DOMAIN leads : leads[i].id \notin Range(sessions'[s].inserted_lead_ids)
      ]_vars

\* an executed file with an invalid row, a matched row left to skip and an
\* unmatched row, from which the one lead of the unmatched row was inserted,
\* by a user who is not the owner of the session
C16_Witness ==
    \E s \in DOMAIN sessions :
        /\ Completed(s)
        /\ sessions[s].validation_errors # <<>>
        /\ Matched(s) # {}
        /\ Len(sessions[s].inserted_lead_ids) = 1
        /\ \E r \in InsertRows(s) \ Matched(s) : InsertedFor(s, r) # {}
        /\ LeadOf(sessions[s].inserted_lead_ids[1]).created_by_id # sessions[s].user_id

\* the rows whose insertion fails: sent to insertion and rejected
FailedRows(s) == InsertRows(s) \ AcceptedRows(s)

\* a failing row costs one error and nothing else
FailuresIsolated(s) ==
    LET res == sessions[s].import_result
    IN  /\ res.errors = Cardinality(FailedRows(s))
        /\ \A r \in FailedRows(s) : InsertedFor(s, r) = {}
        /\ \A r \in AcceptedRows(s) : InsertedFor(s, r) # {}
        /\ \A id \in UpdateTargets(s) : id \in Range(sessions[s].updated_lead_ids)
        /\ res.inserted = Len(sessions[s].inserted_lead_ids)
        /\ res.updated = Len(sessions[s].updated_lead_ids)
        /\ res.inserted + res.updated + res.skipped + res.errors
           = Len(sessions[s].normalized_data)
        /\ \A k \in DOMAIN sessions[s].inserted_lead_ids :
            \E i \in DOMAIN leads : leads[i].id = sessions[s].inserted_lead_ids[k]

C18_LeadsOnlyPatchedByUpdate ==
    [][/\ Len(leads') >= Len(leads)
       /\ \A i \in DOMAIN leads :
            /\ leads'[i].id = leads[i].id
            /\ leads'[i].status = leads[i].status
            /\ leads'[i].source = leads[i].source
            /\ leads'[i].assigned_to_id = leads[i].assigned_to_id
            /\ leads'[i].created_by_id = leads[i].created_by_id
            /\ leads'[i] # leads[i] =>
                /\ resp'.op = "execute"
                /\ \E s \in SessionIds :
                    /\ s = resp'.session_id
                    /\ s \in DOMAIN sessions'
                    /\ leads[i].id \in UpdateTargets(s)'
      ]_vars

\* the lead of before the import has taken a row's name by an update and
\* kept its status and assignment, and the session has since been deleted
C18_Witness ==
    /\ DOMAIN sessions = {}
    /\ nextSessionId > 1
    /\ leads[1].id = LeadAnn.id
    /\ leads[1].full_name # LeadAnn.full_name
    /\ leads[1].status = LeadAnn.status
    /\ leads[1].assigned_to_id = LeadAnn.assigned_to_id

\* ------------------------------------------------------------------------
\* The end-to-end scenario (checked under SpecScenario)
\* ------------------------------------------------------------------------

\* the session holds the scenario file whose rows first and second share an
\* email and has been executed with the decisions {"2": "skip"}
ScenarioRun(s, first, second) ==
    /\ Completed(s)
    /\ sessions[s].file_data = ScenarioFile(first, second)
    /\ sessions[s].duplicate_decisions = (IntToStr(2) :> "skip")

\* what detection reports of the scenario file
ScenarioDetection(s, first, second) ==
    /\ sessions[s].total_rows = 10
    /\ Len(sessions[s].in_file_duplicates) = 1
    /\ sessions[s].in_file_duplicates[1].rows = <<first, second>>
    /\ Len(sessions[s].existing_duplicates) = 1
    /\ sessions[s].existing_duplicates[1].import_row = 2

\* C19 as the specification states it: the scenario with rows 4 and 7
\* sharing an email ends with inserted = 7, skipped = 2, updated = 0.
C19_ScenarioInsertsSeven ==
    \A s \in DOMAIN sessions :
        ScenarioRun(s, 4, 7) =>
            /\ ScenarioDetection(s, 4, 7)
            /\ sessions[s].import_result.inserted = 7
            /\ sessions[s].import_result.skipped = 2
            /\ sessions[s].import_result.updated = 0

\* C19, amended: the scenario ends with inserted = 8, skipped = 2,
\* updated = 0 (ten valid rows less the second row of the cluster and the
\* skipped match), for rows 4 and 7 and for every other place of the second
\* row of the cluster.
C19_ScenarioInsertsEight ==
    \A s \in DOMAIN sessions :
        \A pair \in ScenarioPairs :
            ScenarioRun(s, pair[1], pair[2]) =>
                /\ ScenarioDetection(s, pair[1], pair[2])
                /\ sessions[s].import_result.inserted = 8
                /\ sessions[s].import_result.skipped = 2
                /\ sessions[s].import_result.updated = 0
                /\ sessions[s].import_result.errors = 0
                /\ Len(leads) = 9

\* the scenario with rows 4 and 7 has been executed
C19_Witness ==
    \E s \in DOMAIN sessions :
        /\ ScenarioRun(s, 4, 7)
        /\ sessions[s].valid_rows = 10
        /\ sessions[s].smart_matches = <<>>

\* ------------------------------------------------------------------------
\* Properties of normalization (checked under SpecData)
\* ------------------------------------------------------------------------

\* the row numbers of the invalid rows
InvalidRows(s) ==
    {sessions[s].validation_errors[i].row : i \in DOMAIN sessions[s].validation_errors}

\* the field errors of the file row with a given number, under the mapping
\* the session stores
ErrorsOf(s, row_num) ==
    normalize_row(sessions[s].file_data.rows[row_num - 1],
                  sessions[s].user_mappings, sessions[s].merge_rules)[2]

\* C20: once a session is normalized, the valid and the invalid rows
\* partition the rows of the file: the row at 1-based position p has the
\* number p + 1 and is in exactly one of the two lists, once, among the valid
\* rows exactly when it has no field error; the lists are in file order, an
\* invalid row keeps its original cells and its errors, and the duplicate
\* lists use numbers of valid rows only.
C20_RowsArePartitioned ==
    \A s \in DOMAIN sessions :
        Detected(s) =>
            LET n == Len(sessions[s].file_data.rows)
                valid == sessions[s].normalized_data
                invalid == sessions[s].validation_errors
            IN  /\ ValidRows(s) \cup InvalidRows(s) = 2..(n + 1)
                /\ ValidRows(s) \cap InvalidRows(s) = {}
                /\ Cardinality(ValidRows(s)) = Len(valid)
                /\ Cardinality(InvalidRows(s)) = Len(invalid)
                /\ \A r \in 2..(n + 1) : r \in ValidRows(s) <=> ErrorsOf(s, r) = <<>>
                /\ \A i, j \in DOMAIN valid :
                    i < j => valid[i]["_row_num"] < valid[j]["_row_num"]
                /\ \A i, j \in DOMAIN invalid : i < j => invalid[i].row < invalid[j].row
                /\ \A i \in DOMAIN invalid :
                    /\ invalid[i].original = sessions[s].file_data.rows[invalid[i].row - 1]
                    /\ invalid[i].errors = ErrorsOf(s, invalid[i].row)
                /\ ClusterRows(sessions[s].in_file_duplicates) \cup Matched(s)
                   \subseteq ValidRows(s)

\* a file of three rows whose second row is invalid: the valid rows keep
\* the numbers 2 and 4, the invalid row has the number 3
C20_Witness ==
    \E s \in DOMAIN sessions :
        /\ Detected(s)
        /\ ValidRows(s) = {2, 4}
        /\ InvalidRows(s) = {3}
        /\ 4 \in ClusterRows(sessions[s].in_file_duplicates) \cup Matched(s)

\* ------------------------------------------------------------------------
\* Calls of the normalizer on its own (NormalizerService is stateless)
\* ------------------------------------------------------------------------

EMAIL_DOTS3_RAW == <<"a",".",".",".","b","@","x",".","c","o">>
EMAIL_DOTS2_RAW == <<"a",".",".","b","@","x",".","c","o">>
PHONE_INNER_PLUS_RAW == <<"1","+","2","3","4","5","6","7">>
PHONE_PLUS6_RAW == <<"+","1","2","3","4","5","6">>
PHONE_PLUS7_RAW == <<"+","1","+","2","3","4","5","6","7">>
PHONE_SHORT_RAW == <<"1","2","-","3","4","5">>
PHONE_7_RAW == <<" ","(","1","2",")"," ","3","4","5","6","7">>
SOURCE_OTHER_RAW == <<"o","t","h","e","r">>

NameInputs == {NAME_ANN_RAW, NAME_BOB_RAW, NaN}
EmailInputs == {EMAIL_A_RAW, EMAIL_BAD_RAW, EMAIL_DOTS2_RAW, EMAIL_DOTS3_RAW, NaN}
PhoneInputs == {PHONE_1_RAW, PHONE_INNER_PLUS_RAW, PHONE_PLUS6_RAW, PHONE_PLUS7_RAW,
                PHONE_SHORT_RAW, PHONE_7_RAW, NaN, <<>>}
CompanyInputs == {COMPANY_RAW, NaN}
SourceInputs == {SOURCE_WEB_RAW, SOURCE_OTHER_RAW, NaN}

\* the raw rows handed to normalize_row, under the mapping of every column
NormalizeInputs ==
    {[name |-> n, email |-> e, phone |-> p, company |-> c, source |-> src] :
        n \in NameInputs, e \in EmailInputs, p \in PhoneInputs \ {<<>>},
        c \in CompanyInputs, src \in SourceInputs}

\* a call that has not run yet
Call(fn, input) ==
    [fn |-> fn, input |-> input, done |-> FALSE, output |-> Absent, again |-> Absent]

\* normalize_row, lines 203-208, on a normalized row under the identity
\* mapping: every canonical field the row has is mapped to itself
IdentityMapped(normalized) ==
    [f \in CrmFields |-> IF f \in DOMAIN normalized THEN normalized[f] ELSE Absent]

\* normalizer.normalize_row(row, mappings) on a raw row
NormalizeRowCall ==
    /\ calc.fn = "normalize_row" /\ ~calc.done
    /\ calc' = [calc EXCEPT !.done = TRUE, !.output = normalize_row(calc.input, FullMapping, <<>>)]
    /\ UNCHANGED <<sessions, nextSessionId, leads, nextLeadId, templates, accepted,
                   faults, resp, inflight>>

\* normalizer.normalize_row(normalized, identity) on the fields the first call
\* returned, read back from the JSON column that keeps them
RenormalizeRowCall ==
    /\ calc.fn = "normalize_row" /\ calc.done /\ calc.again = Absent
    /\ calc' = [calc EXCEPT
                    !.again = NormalizeMapped(IdentityMapped(JsonRow(calc.output[1])))]
    /\ UNCHANGED <<sessions, nextSessionId, leads, nextLeadId, templates, accepted,
                   faults, resp, inflight>>

\* NormalizerService.normalize_phone(value)
NormalizePhoneCall ==
    /\ calc.fn = "normalize_phone" /\ ~calc.done
    /\ calc' = [calc EXCEPT !.done = TRUE, !.output = normalize_phone(calc.input)]
    /\ UNCHANGED <<sessions, nextSessionId, leads, nextLeadId, templates, accepted,
                   faults, resp, inflight>>

\* SpecNormalizer: one call of the normalizer on each input of the bounds

InitNormalizer ==
    /\ sessions = <<>>
    /\ nextSessionId = 1
    /\ leads = <<LeadAnn>>
    /\ nextLeadId = Len(leads) + 1
    /\ templates = <<>>
    /\ accepted = <<>>
    /\ faults = 0
    /\ resp = NoRequest
    /\ inflight = <<>>
    /\ \/ \E row \in NormalizeInputs : calc = Call("normalize_row", row)
       \/ \E value \in PhoneInputs : calc = Call("normalize_phone", value)

NextNormalizer ==
    \/ NormalizeRowCall
    \/ RenormalizeRowCall
    \/ NormalizePhoneCall

SpecNormalizer == InitNormalizer /\ [][NextNormalizer]_vars

\* ------------------------------------------------------------------------
\* Normalization on its own output
\* ------------------------------------------------------------------------

\* a normalize_row call whose result has been normalized again
Renormalized == calc.fn = "normalize_row" /\ calc.again # Absent

\* C21: normalizing a row and then normalizing the resulting canonical
\* fields again under the identity mapping yields the same full_name, email,
\* phone, company, source and notes
C21_NormalizationIsIdempotent ==
    Renormalized => \A f \in NormFields : calc.again[1][f] = calc.output[1][f]

\* an optional single leading plus followed only by digits, at least seven
WellFormedPhone(phone) ==
    LET digits == IF phone # <<>> /\ phone[1] = "+" THEN Tail(phone) ELSE phone
    IN  /\ \A i \in DOMAIN digits : IsDigit(digits[i])
        /\ Len(digits) >= 7

\* C22: normalize_phone returns None or an optional single leading plus
\* followed only by digits, with at least seven digits
C22_PhoneIsAbsentOrWellFormed ==
    (calc.fn = "normalize_phone" /\ calc.done)
        => (calc.output = None \/ WellFormedPhone(calc.output))

\* ------------------------------------------------------------------------
\* Calls of the analyzer on its own (AnalyzerService is stateless)
\* ------------------------------------------------------------------------

\* values of one column in a frame handed to suggest_mappings
MaxSample == 10

\* columns in a list handed to generate_column_signature
MaxColumns == 2

COLUMN_A == <<"a">>
COLUMN_B == <<"b">>
COLUMN_A_RAW == <<" ","A">>
COLUMN_A_BAR_B == <<"a","|","b">>
ColumnNameInputs == {COLUMN_A, COLUMN_B, COLUMN_A_RAW, COLUMN_A_BAR_B}
ColumnLists == UNION {[1..n -> ColumnNameInputs] : n \in 1..MaxColumns}

\* the columns that come before the examined one and take their fields
TakenColumns == {<<>>, <<"email">>, <<"phone">>, <<"email", "phone">>}

\* a frame whose last column "x" has no alias: an empty cell, then emails
\* email cells, phones phone cells and others cells that are neither
SniffFrame(emails, phones, others, taken) ==
    [emails |-> emails, phones |-> phones, others |-> others, taken |-> taken,
     columns |-> taken \o <<"x">>,
     rows |-> [i \in 1..(emails + phones + others + 1) |->
                [c \in Range(taken) \cup {"x"} |->
                    IF c = "email" THEN EMAIL_A
                    ELSE IF c = "phone" THEN PHONE_1
                    ELSE IF i = 1 THEN NaN
                    ELSE IF i - 1 <= emails THEN EMAIL_A
                    ELSE IF i - 1 <= emails + phones THEN PHONE_1
                    ELSE NAME_BOB_RAW]]]

SniffFrames ==
    {SniffFrame(emails, phones, others, taken) :
        emails \in 0..MaxSample, phones \in 0..MaxSample, others \in 0..MaxSample,
        taken \in TakenColumns}

\* AnalyzerService.suggest_mappings(df)
SuggestMappingsCall ==
    /\ calc.fn = "suggest_mappings" /\ ~calc.done
    /\ calc' = [calc EXCEPT !.done = TRUE, !.output = suggest_mappings(calc.input.columns, calc.input.rows)]
    /\ UNCHANGED <<sessions, nextSessionId, leads, nextLeadId, templates, accepted,
                   faults, resp, inflight>>

\* AnalyzerService.generate_column_signature(columns)
ColumnSignatureCall ==
    /\ calc.fn = "generate_column_signature" /\ ~calc.done
    /\ calc' = [calc EXCEPT !.done = TRUE, !.output = generate_column_signature(calc.input)]
    /\ UNCHANGED <<sessions, nextSessionId, leads, nextLeadId, templates, accepted,
                   faults, resp, inflight>>

\* SpecAnalyzer: one call of the analyzer on each input of the bounds

InitAnalyzer ==
    /\ sessions = <<>>
    /\ nextSessionId = 1
    /\ leads = <<LeadAnn>>
    /\ nextLeadId = Len(leads) + 1
    /\ templates = <<>>
    /\ accepted = <<>>
    /\ faults = 0
    /\ resp = NoRequest
    /\ inflight = <<>>
    /\ \/ \E frame \in SniffFrames :
            /\ frame.emails + frame.phones + frame.others \in 1..MaxSample
            /\ calc = Call("suggest_mappings", frame)
       \/ \E columns \in ColumnLists : calc = Call("generate_column_signature", columns)

NextAnalyzer ==
    \/ SuggestMappingsCall
    \/ ColumnSignatureCall

SpecAnalyzer == InitAnalyzer /\ [][NextAnalyzer]_vars

\* ------------------------------------------------------------------------
\* Column signatures and content detection
\* ------------------------------------------------------------------------

\* the lowercased, trimmed names of a column list as a sorted list
SortedNames(columns) == Sorted([i \in DOMAIN columns |-> Strip(Lower(columns[i]))])

\* C24: generate_column_signature returns the same signature for two column
\* lists exactly when their lowercased, trimmed names are equal as sorted
\* lists
C24_SignatureIdentifiesColumns ==
    (calc.fn = "generate_column_signature" /\ calc.done)
        => \A columns \in ColumnLists :
                (generate_column_signature(columns) = calc.output)
                    <=> (SortedNames(columns) = SortedNames(calc.input))

\* a suggest_mappings call that has returned
Suggested == calc.fn = "suggest_mappings" /\ calc.done

\* what suggest_mappings returned for the column without an alias
SuggestedForX == IF "x" \in DOMAIN calc.output THEN calc.output["x"] ELSE ""

\* the size of the sample of the column without an alias
SampleSize == calc.input.emails + calc.input.phones + calc.input.others

\* C25 as stated: the suggestion is email when at least 80 percent of the
\* sample match the email pattern, otherwise phone when at least 70 percent
\* match the phone pattern, for a field not suggested before
C25_SuggestedAtThreshold ==
    Suggested =>
        SuggestedForX =
            IF "email" \notin Range(calc.input.taken)
               /\ 100 * calc.input.emails >= 80 * SampleSize
            THEN "email"
            ELSE IF "phone" \notin Range(calc.input.taken)
                    /\ 100 * calc.input.phones >= 70 * SampleSize
                 THEN "phone"
                 ELSE ""

\* C25: the suggestion is email when more than 80 percent of the sample
\* match the email pattern, otherwise phone when more than 70 percent match
\* the phone pattern, for a field not suggested before; a share of exactly 80
\* or 70 percent suggests nothing
C25_SuggestedAboveThreshold ==
    Suggested =>
        SuggestedForX =
            IF "email" \notin Range(calc.input.taken)
               /\ 100 * calc.input.emails > 80 * SampleSize
            THEN "email"
            ELSE IF "phone" \notin Range(calc.input.taken)
                    /\ 100 * calc.input.phones > 70 * SampleSize
                 THEN "phone"
                 ELSE ""

\* four of five values are emails and the column is suggested nothing
C25_Witness ==
    /\ Suggested
    /\ calc.input.emails = 4 /\ calc.input.phones = 0 /\ calc.input.others = 1
    /\ calc.input.taken = <<>>
    /\ SuggestedForX = ""

\* ------------------------------------------------------------------------
\* Calls of the template manager, next to uploads that look templates up
\* ------------------------------------------------------------------------

\* mapping templates ever created
MaxTemplates == 2

\* times the use count of one template is incremented
MaxUses == 2

TemplateIds == 1..MaxTemplates

\* the uploads of SpecTemplates: a file with all five columns filled and one
\* whose company and source columns are empty and are dropped
TemplateFiles ==
    {[file_name |-> "leads.csv", utf8 |-> TRUE, rows |-> <<RowAnn>>],
     [file_name |-> "leads.csv", utf8 |-> TRUE, rows |-> <<RowBob>>]}

\* the signatures templates are created with: those of the two uploads (as
\* submit_mapping passes them) and none (as POST /templates passes)
TemplateSignatures ==
    {generate_column_signature(ColumnTexts(clean_columns(file.rows)[1])) :
        file \in TemplateFiles} \cup {None}

\* the value a template manager call returns (code 404: it raised NotFound)
TemplateReply(op, arg, code, body) ==
    [op |-> op, session_id |-> 0, user |-> Importer, code |-> code, arg |-> arg,
     body |-> body]

TemplateFrame == <<sessions, nextSessionId, leads, nextLeadId, accepted, faults,
                   inflight, calc>>

\* TemplateManager.create_template(...)
CreateTemplateCall ==
    \E column_signature \in TemplateSignatures :
        /\ Len(templates) < MaxTemplates
        /\ templates' = create_template(templates, Importer, "saved", FullMapping,
                                        <<>>, <<>>, column_signature)
        /\ resp' = TemplateReply("create_template", column_signature, HTTP_OK,
                                 <<templates'[Len(templates')]>>)
        /\ UNCHANGED TemplateFrame

\* TemplateManager.get_template(template_id)
GetTemplateCall ==
    \E template_id \in TemplateIds :
        /\ resp' = IF get_template(templates, template_id) = 0
                   THEN TemplateReply("get_template", template_id, HTTP_NOT_FOUND, <<>>)
                   ELSE TemplateReply("get_template", template_id, HTTP_OK,
                                      <<templates[get_template(templates, template_id)]>>)
        /\ UNCHANGED templates
        /\ UNCHANGED TemplateFrame

\* TemplateManager.get_all_templates()
GetAllTemplatesCall ==
    \E listing \in get_all_templates(templates) :
        /\ resp' = TemplateReply("get_all_templates", None, HTTP_OK, listing)
        /\ UNCHANGED templates
        /\ UNCHANGED TemplateFrame

\* TemplateManager.find_matching_templates(column_signature)
FindMatchingTemplatesCall ==
    \E column_signature \in TemplateSignatures \ {None} :
        \E listing \in find_matching_templates(templates, column_signature) :
            /\ resp' = TemplateReply("find_matching_templates", column_signature,
                                     HTTP_OK, listing)
            /\ UNCHANGED templates
            /\ UNCHANGED TemplateFrame

\* TemplateManager.update_template(template_id, name="renamed")
UpdateTemplateCall ==
    \E template_id \in TemplateIds :
        /\ IF get_template(templates, template_id) = 0
           THEN /\ resp' = TemplateReply("update_template", template_id,
                                         HTTP_NOT_FOUND, <<>>)
                /\ UNCHANGED templates
           ELSE /\ templates' = update_template(templates,
                                                get_template(templates, template_id),
                                                "renamed")
                /\ resp' = TemplateReply("update_template", template_id, HTTP_OK,
                                         <<templates'[get_template(templates, template_id)]>>)
        /\ UNCHANGED TemplateFrame

\* TemplateManager.increment_use_count(template), on a template the caller
\* holds
IncrementUseCountCall ==
    \E i \in DOMAIN templates :
        /\ templates[i].use_count < MaxUses
        /\ templates' = increment_use_count(templates, i)
        /\ resp' = TemplateReply("increment_use_count", templates[i].id, HTTP_OK, <<>>)
        /\ UNCHANGED TemplateFrame

\* TemplateManager.delete_template(template_id)
DeleteTemplateCall ==
    \E template_id \in TemplateIds :
        /\ IF get_template(templates, template_id) = 0
           THEN /\ resp' = TemplateReply("delete_template", template_id,
                                         HTTP_NOT_FOUND, <<>>)
                /\ UNCHANGED templates
           ELSE /\ templates' = delete_template(templates,
                                                get_template(templates, template_id))
                /\ resp' = TemplateReply("delete_template", template_id, HTTP_OK, <<>>)
        /\ UNCHANGED TemplateFrame

\* POST /upload, which looks the templates of the file's columns up
UploadTemplates == \E file \in TemplateFiles : Upload(Importer, file)

\* SpecTemplates: the template manager's operations in any order, and uploads

NextTemplates ==
    \/ CreateTemplateCall
    \/ GetTemplateCall
    \/ GetAllTemplatesCall
    \/ FindMatchingTemplatesCall
    \/ UpdateTemplateCall
    \/ IncrementUseCountCall
    \/ DeleteTemplateCall
    \/ UploadTemplates

SpecTemplates == Init /\ [][NextTemplates]_vars

\* ------------------------------------------------------------------------
\* Template lookup
\* ------------------------------------------------------------------------

\* a listing holds exactly the given templates, each once
ListsExactly(listing, wanted) ==
    /\ {listing[k] : k \in DOMAIN listing} = wanted
    /\ Len(listing) = Cardinality(wanted)

\* the use counts of a listing never rise
UseCountsFall(listing) ==
    \A k, l \in DOMAIN listing : k < l => listing[k].use_count >= listing[l].use_count

ActiveTemplates == {templates[i] : i \in {j \in DOMAIN templates : templates[j].is_active}}

\* what the reads of the template manager return in the store they read
ReadsOnlyActive ==
    /\ resp.op = "find_matching_templates" =>
            /\ ListsExactly(resp.body,
                            {t \in ActiveTemplates : t.column_signature = resp.arg})
            /\ UseCountsFall(resp.body)
    /\ resp.op = "get_all_templates" =>
            /\ ListsExactly(resp.body, ActiveTemplates)
            /\ UseCountsFall(resp.body)
    /\ resp.op = "get_template" =>
            IF \E t \in ActiveTemplates : t.id = resp.arg
            THEN resp.code = HTTP_OK /\ resp.body[1] \in ActiveTemplates
                 /\ resp.body[1].id = resp.arg
            ELSE resp.code = HTTP_NOT_FOUND

\* an archived template stays in the table as it is, but for its use count
ArchivedKept ==
    \A i \in DOMAIN templates :
        ~templates[i].is_active =>
            /\ i \in DOMAIN templates'
            /\ [templates'[i] EXCEPT !.use_count = 0]
                    = [templates[i] EXCEPT !.use_count = 0]

\* delete_template archives: the row stays, inactive
DeleteArchives ==
    (resp'.op = "delete_template" /\ resp'.code = HTTP_OK) =>
        /\ Len(templates') = Len(templates)
        /\ \E i \in DOMAIN templates :
                /\ templates[i].id = resp'.arg
                /\ templates'[i] = [templates[i] EXCEPT !.is_active = FALSE]

\* C23: find_matching_templates(S) returns exactly the active templates with
\* signature S in non-increasing use-count order; a soft-deleted template
\* stays in the table but is returned by no lookup, get_template or default
\* listing, and cannot be updated
C23_LookupsReturnActiveTemplates ==
    [][ReadsOnlyActive' /\ ArchivedKept /\ DeleteArchives]_vars

\* a lookup by signature after a soft delete: of two templates of one
\* signature the archived one is left out and the used one is returned
C23_Witness ==
    /\ resp.op = "find_matching_templates"
    /\ Len(templates) = 2
    /\ \E i, j \in DOMAIN templates :
        /\ templates[i].column_signature = resp.arg /\ ~templates[i].is_active
        /\ templates[j].column_signature = resp.arg /\ templates[j].is_active
        /\ templates[j].use_count > 0
        /\ resp.body = <<templates[j]>>

\* ------------------------------------------------------------------------
\* Frame of the decisions, and the source of an inserted lead (SpecData)
\* ------------------------------------------------------------------------

\* the part of a decision map that is keyed by a matched row of the session
MatchedDecisions(s, decisions) ==
    [k \in {q \in DOMAIN decisions : \E r \in Matched(s) : q = IntToStr(r)} |->
        decisions[k]]

\* what the import loop does in the store it starts from
ImportOutcome(s, decisions, user) ==
    ImportRows(sessions[s].normalized_data, sessions[s], decisions, user,
               [leads |-> leads, nextLeadId |-> nextLeadId,
                inserted_ids |-> <<>>, updated_ids |-> <<>>, errors |-> 0])

\* the step did what the loop does under the given decisions
SameOutcome(s, decisions, user) ==
    /\ leads' = ImportOutcome(s, decisions, user).leads
    /\ sessions'[s].inserted_lead_ids = ImportOutcome(s, decisions, user).inserted_ids
    /\ sessions'[s].updated_lead_ids = ImportOutcome(s, decisions, user).updated_ids
    /\ sessions'[s].import_result.errors = ImportOutcome(s, decisions, user).errors
    /\ sessions'[s].import_result.skipped
       = Cardinality(skip_rows(sessions[s], decisions))

\* the valid rows that are in no match list and no later row of a cluster
PlainRows(s) == (ValidRows(s) \ Matched(s)) \ NonFirstRows(s)

\* C29: in the step that executes a session the decisions count only for the
\* rows in existing_duplicates or smart_matches: the step does what it would
\* do with the decisions of those rows alone, and a valid row that is no
\* duplicate is inserted whatever the request decides for it, skip included.
C29_DecisionsOnlyForMatchedRows ==
    [][\A s \in SessionIds :
        ExecuteDone(s) =>
            /\ SameOutcome(s, MatchedDecisions(s, sessions'[s].duplicate_decisions),
                           resp'.user)
            /\ \A r \in PlainRows(s) :
                    Insertable(RowOf(s, r)) => InsertedFor(s, r)' # {}
      ]_vars

\* an executed session whose request decided skip for a valid row that is
\* no duplicate, and the row was inserted
C29_Witness ==
    \E s \in DOMAIN sessions :
        /\ Completed(s)
        /\ \E r \in PlainRows(s) :
            /\ Decided(s, r) = "skip"
            /\ InsertedFor(s, r) # {}
            /\ sessions[s].import_result.skipped = 0

\* C30: a lead inserted by execute has the source that normalization
\* computed for its row, as the session kept it between submit_mapping and
\* execute
C30_InsertedLeadHasRowSource ==
    [][\A s \in SessionIds :
        ExecuteDone(s) =>
            \A r \in AcceptedRows(s)' :
                \A k \in InsertedFor(s, r)' :
                    ValueOf(LeadOf(sessions[s].inserted_lead_ids[k]).source)'
                        = RowOf(s, r)["source"]
      ]_vars

\* ------------------------------------------------------------------------
\* The lead API next to an import (app/api/v1/endpoints/leads.py)
\* ------------------------------------------------------------------------

\* lead ids the store gives out before the lead API stops creating
MaxLeadId == 3

\* status codes of POST /leads and DELETE /leads/{lead_id}
HTTP_CREATED == 201
HTTP_NO_CONTENT == 204

\* the bodies of POST /leads requests: a lead with the email of the row Lea
EMAIL_C == <<"c","@","x",".","c","o">>
LeadInputs ==
    {[full_name |-> NAME_LEA_RAW, email |-> EMAIL_C, phone |-> None,
      source |-> LeadSource_DIRECT]}

\* POST /leads: create_lead_with_validation with no assignee, crud.create_lead
CreateLead(user, lead_in) ==
    /\ nextLeadId <= MaxLeadId
    /\ leads' = Append(leads, create_lead(nextLeadId, lead_in.full_name, lead_in.email,
                                          lead_in.phone, lead_in.source, user.id))
    /\ nextLeadId' = nextLeadId + 1
    /\ resp' = Response("create_lead", 0, user, HTTP_CREATED)
    /\ UNCHANGED <<sessions, nextSessionId, templates, accepted, faults, inflight, calc>>

\* crud.delete_lead: the store without the lead
delete_lead(db, lead_id) == SelectSeq(db, LAMBDA lead : lead.id # lead_id)

\* DELETE /leads/{lead_id}
DeleteLead(user, lead_id) ==
    /\ IF \E i \in DOMAIN leads : leads[i].id = lead_id
       THEN /\ leads' = delete_lead(leads, lead_id)
            /\ resp' = Response("delete_lead", 0, user, HTTP_NO_CONTENT)
       ELSE /\ resp' = Response("delete_lead", 0, user, HTTP_NOT_FOUND)
            /\ UNCHANGED leads
    /\ UNCHANGED <<sessions, nextSessionId, nextLeadId, templates, accepted, faults,
                   inflight, calc>>

\* the upload of SpecLeads and SpecConcurrent: Ann, whose email a stored lead
\* has, and Lea, whom no stored lead matches
LeadFiles == {[file_name |-> "leads.csv", utf8 |-> TRUE, rows |-> <<RowAnn, RowLea>>]}

\* the mapping of SpecLeads and SpecConcurrent: every column, no template
LeadSubmissions == {m \in WorkflowSubmissions : ~m.save_as_template}

UploadLeads == \E file \in LeadFiles : Upload(Importer, file)

SubmitMappingLeads ==
    \E session_id \in SessionIds, mapping_data \in LeadSubmissions :
        SubmitMapping(session_id, Importer, mapping_data, "none")

ExecuteImportLeads ==
    \E session_id \in SessionIds, decisions \in WorkflowDecisions :
        ExecuteImport(session_id, Executor, decisions, "none")

CreateLeadStep == \E lead_in \in LeadInputs : CreateLead(Importer, lead_in)

DeleteLeadStep == \E lead_id \in 1..MaxLeadId : DeleteLead(Importer, lead_id)

\* SpecLeads: one import, with leads created and deleted through the lead API
\* at any time

NextLeads ==
    \/ UploadLeads
    \/ SubmitMappingLeads
    \/ ExecuteImportLeads
    \/ CreateLeadStep
    \/ DeleteLeadStep

SpecLeads == Init /\ [][NextLeads]_vars

\* ------------------------------------------------------------------------
\* The import summary and the store at execute (SpecLeads)
\* ------------------------------------------------------------------------

\* C27: in the step that completes a session inserted + updated + skipped +
\* errors is the number of valid rows, inserted is the length of
\* inserted_lead_ids and updated that of updated_lead_ids, also when a
\* matched lead was deleted before execute
C27_SummaryAddsUp ==
    [][\A s \in SessionIds :
        ExecuteDone(s) =>
            LET res == sessions'[s].import_result
            IN  /\ res.inserted + res.updated + res.skipped + res.errors
                   = sessions'[s].valid_rows
                /\ sessions'[s].valid_rows = Len(sessions'[s].normalized_data)
                /\ res.inserted = Len(sessions'[s].inserted_lead_ids)
                /\ res.updated = Len(sessions'[s].updated_lead_ids)
      ]_vars

\* the request of the step decides insert for no row
NoInsertDecision(s) ==
    \A k \in DOMAIN sessions'[s].duplicate_decisions :
        sessions'[s].duplicate_decisions[k] # "insert"

\* C28: when no decision is insert, the step that executes a session inserts
\* no lead whose email is that of a lead in the store when execute starts,
\* also when leads were added between submit_mapping and execute
C28_NoInsertOfStoredEmail ==
    [][\A s \in SessionIds :
        (ExecuteDone(s) /\ NoInsertDecision(s)) =>
            \A i \in DOMAIN leads' :
                leads'[i].id \in Range(sessions'[s].inserted_lead_ids)
                    => \A j \in DOMAIN leads : leads[j].email # leads'[i].email
      ]_vars

\* ------------------------------------------------------------------------
\* Execute requests running side by side (execute_import is a sync endpoint:
\* each request runs in its own thread with its own database session, and
\* every commit of one request may fall between two commits of another)
\* ------------------------------------------------------------------------

\* execute requests the clients issue that get past the guard
MaxRequests == 2

\* execute_import up to the import loop: get_session, the status guard,
\* update_duplicate_decisions (a commit), then skip_rows and update_rows built
\* from the session as read back; the locals of the request go to inflight
ExecuteBegin(session_id, user, decisions) ==
    LET op == "execute"
        code == get_session(session_id, user)
    IN  /\ Len(inflight) < MaxRequests
        /\ IF code # HTTP_OK THEN Rejected(op, session_id, user, code)
           ELSE IF ~ExecuteAllowed(sessions[session_id])
           THEN Rejected(op, session_id, user, HTTP_BAD_REQUEST)
           ELSE
           LET s1 == update_duplicate_decisions(sessions[session_id], decisions)
           IN  /\ sessions' = [sessions EXCEPT ![session_id] = s1]
               /\ inflight' = Append(inflight,
                    [session_id |-> session_id, user |-> user, decisions |-> decisions,
                     session |-> s1, rows |-> s1.normalized_data, done |-> FALSE,
                     inserted_ids |-> <<>>, updated_ids |-> <<>>, errors |-> 0])
               /\ UNCHANGED <<nextSessionId, leads, nextLeadId, templates, accepted,
                              faults, resp, calc>>

\* one pass of the import loop of request r, with the commit it ends in
ExecuteRow(r) ==
    /\ r \in DOMAIN inflight
    /\ ~inflight[r].done
    /\ inflight[r].rows # <<>>
    /\ LET req == inflight[r]
           row == Head(req.rows)
           row_num == row["_row_num"]
           acc == [leads |-> leads, nextLeadId |-> nextLeadId,
                   inserted_ids |-> req.inserted_ids, updated_ids |-> req.updated_ids,
                   errors |-> req.errors]
           out == IF row_num \in skip_rows(req.session, req.decisions) THEN acc
                  ELSE ImportRow(row, update_rows(req.session, req.decisions, row_num),
                                 req.user, acc)
       IN  /\ leads' = out.leads
           /\ nextLeadId' = out.nextLeadId
           /\ inflight' = [inflight EXCEPT ![r] =
                            [req EXCEPT !.rows = Tail(req.rows),
                                        !.inserted_ids = out.inserted_ids,
                                        !.updated_ids = out.updated_ids,
                                        !.errors = out.errors]]
    /\ UNCHANGED <<sessions, nextSessionId, templates, accepted, faults, resp, calc>>

\* the end of request r: the result summary and complete_session, which
\* writes status, import_result and the two id lists over the stored session
ExecuteEnd(r) ==
    /\ r \in DOMAIN inflight
    /\ ~inflight[r].done
    /\ inflight[r].rows = <<>>
    /\ LET req == inflight[r]
           result == [total_rows |-> sessions[req.session_id].total_rows,
                      inserted |-> Len(req.inserted_ids),
                      updated |-> Len(req.updated_ids),
                      skipped |-> Cardinality(skip_rows(req.session, req.decisions)),
                      errors |-> req.errors]
       IN  /\ sessions' = [sessions EXCEPT ![req.session_id] =
                            complete_session(@, result, req.inserted_ids, req.updated_ids)]
           /\ resp' = Response("execute", req.session_id, req.user, HTTP_OK)
           /\ inflight' = [inflight EXCEPT ![r].done = TRUE]
    /\ UNCHANGED <<nextSessionId, leads, nextLeadId, templates, accepted, faults, calc>>

ExecuteBeginStep ==
    \E session_id \in SessionIds, decisions \in WorkflowDecisions :
        ExecuteBegin(session_id, Executor, decisions)

ExecuteRowStep == \E r \in 1..MaxRequests : ExecuteRow(r)

ExecuteEndStep == \E r \in 1..MaxRequests : ExecuteEnd(r)

\* SpecConcurrent: one import whose execute requests run step by step

NextConcurrent ==
    \/ UploadLeads
    \/ SubmitMappingLeads
    \/ ExecuteBeginStep
    \/ ExecuteRowStep
    \/ ExecuteEndStep

SpecConcurrent == Init /\ [][NextConcurrent]_vars

\* the leads that the execute requests inserted: the store of Init has none of them
ImportedLeads == {i \in DOMAIN leads : leads[i] \notin Range(<<LeadAnn>>)}

\* request r has inserted or updated a lead
Wrote(r) == inflight[r].inserted_ids # <<>> \/ inflight[r].updated_ids # <<>>

\* every execute request that got past the guard has ended
AllEnded == inflight # <<>> /\ \A r \in DOMAIN inflight : inflight[r].done

\* C26: of two execute requests for one Ready session at most one inserts or
\* updates leads, every valid row yields at most one inserted lead, and once
\* the requests have ended inserted_lead_ids lists every inserted lead
C26_OneExecutePerSession ==
    /\ \A r1, r2 \in DOMAIN inflight :
        (r1 # r2 /\ inflight[r1].session_id = inflight[r2].session_id)
            => ~(Wrote(r1) /\ Wrote(r2))
    /\ \A s \in DOMAIN sessions : \A n \in DOMAIN sessions[s].normalized_data :
        Cardinality({i \in ImportedLeads :
                        leads[i].email = sessions[s].normalized_data[n]["email"]}) <= 1
    /\ AllEnded =>
        \A s \in DOMAIN sessions :
            Completed(s) =>
                \A i \in ImportedLeads :
                    leads[i].id \in Range(sessions[s].inserted_lead_ids)

====
